---- MODULE Spec2Model ----
(***************************************************************************)
(* A model of the Markdown rendering engine of md (renderMarkdown and the  *)
(* hooks it installs into the marked renderer).                            *)
(*                                                                         *)
(* Strings are sequences of one-character strings, so that lowercasing,    *)
(* trimming, escaping and the regular expressions of the source are        *)
(* computed character by character.  The HTML a hook returns is kept as a  *)
(* record per block (the fixed template text is the record's kind); every  *)
(* string the template interpolates is a field holding the characters      *)
(* that reach the output.  Inline content is kept as real HTML text.       *)
(***************************************************************************)
EXTENDS Integers, Sequences, FiniteSets, TLC

\* ------------------------------------------------------------------ bounds

\* The largest number of top-level snippets of one input document.
MaxBlocks == 3

\* The most blocks of an input of a run of several calls.
MaxCallBlocks == 2

\* The most calls of renderMarkdown in one run.
MaxCalls == 2

\* The snippets of a document around nested callouts.
MaxNestBlocks == 2

\* The most change events of the watched file in one run of the previewer.
MaxChanges == 2

\* The most watch events, accepted or dropped, of one run of the debounce.
MaxEvents == 4

\* The most requests to /events and the most broadcasts of one run of the
\* preview server.
MaxStreams == 3

MaxBroadcasts == 2

\* The most requests for Mermaid assets of one run of the preview server.
MaxRequests == 3

\* The most Mermaid diagrams of the document in the page and the most render
\* passes over them.
MaxDiagrams == 2

MaxPasses == 2

\* ------------------------------------------------------- character strings

UpperLetters == <<"A","B","C","D","E","F","G","H","I","J","K","L","M",
                  "N","O","P","Q","R","S","T","U","V","W","X","Y","Z">>

LowerLetters == <<"a","b","c","d","e","f","g","h","i","j","k","l","m",
                  "n","o","p","q","r","s","t","u","v","w","x","y","z">>

DigitChars == <<"0","1","2","3","4","5","6","7","8","9">>

\* The backtick character, which a string literal of the module cannot hold.
BT == "BACKTICK"

Range(s) == {s[i] : i \in DOMAIN s}

\* String.prototype.toLowerCase, one character.
LowerChar(c) ==
  IF c \in Range(UpperLetters)
    THEN LowerLetters[CHOOSE i \in DOMAIN UpperLetters : UpperLetters[i] = c]
    ELSE c

\* String.prototype.toLowerCase.
ToLowerCase(s) == [i \in DOMAIN s |-> LowerChar(s[i])]

\* The class \s of the regular expressions (the characters the inputs use).
IsSpace(c) == c \in {" ", "\t", "\n", "\r"}

\* The class \w of the regular expressions.
IsWord(c) ==
  c \in Range(LowerLetters) \cup Range(UpperLetters) \cup Range(DigitChars) \cup {"_"}

RECURSIVE TrimStart(_)
TrimStart(s) ==
  IF s = <<>> THEN <<>>
  ELSE IF IsSpace(Head(s)) THEN TrimStart(Tail(s)) ELSE s

RECURSIVE TrimEnd(_)
TrimEnd(s) ==
  IF s = <<>> THEN <<>>
  ELSE IF IsSpace(s[Len(s)]) THEN TrimEnd(SubSeq(s, 1, Len(s) - 1)) ELSE s

\* String.prototype.trim.
Trim(s) == TrimEnd(TrimStart(s))

\* s.startsWith(p)
StartsWith(s, p) == Len(s) >= Len(p) /\ SubSeq(s, 1, Len(p)) = p

\* s.includes(p)
Includes(s, p) ==
  \E i \in 1..(Len(s) - Len(p) + 1) : SubSeq(s, i, i + Len(p) - 1) = p

\* The first index of p in s, 0 when s does not hold p.
IndexOf(s, p) ==
  IF Includes(s, p)
    THEN CHOOSE i \in 1..(Len(s) - Len(p) + 1) :
           /\ SubSeq(s, i, i + Len(p) - 1) = p
           /\ \A j \in 1..(i - 1) : SubSeq(s, j, j + Len(p) - 1) # p
    ELSE 0

\* String.prototype.replace(/c/g, r) for a one-character pattern c.
RECURSIVE ReplaceChar(_, _, _)
ReplaceChar(s, c, r) ==
  IF s = <<>> THEN <<>>
  ELSE (IF Head(s) = c THEN r ELSE <<Head(s)>>) \o ReplaceChar(Tail(s), c, r)

\* String.prototype.split("\n"): always at least one segment.
RECURSIVE Split(_, _)
Split(s, sep) ==
  IF \A i \in DOMAIN s : s[i] # sep THEN <<s>>
  ELSE LET k == CHOOSE i \in DOMAIN s :
                  s[i] = sep /\ \A j \in 1..(i - 1) : s[j] # sep
       IN  <<SubSeq(s, 1, k - 1)>> \o Split(SubSeq(s, k + 1, Len(s)), sep)

\* Array.prototype.join(sep)
RECURSIVE Join(_, _)
Join(parts, sep) ==
  IF parts = <<>> THEN <<>>
  ELSE IF Len(parts) = 1 THEN parts[1]
  ELSE parts[1] \o sep \o Join(Tail(parts), sep)

\* The decimal digits of a number, as `${n}` prints it.
RECURSIVE NumberToString(_)
NumberToString(n) ==
  IF n < 10 THEN <<DigitChars[n + 1]>>
  ELSE NumberToString(n \div 10) \o <<DigitChars[(n % 10) + 1]>>

\* --------------------------------------------------------------- escapeHtml

AmpEntity  == <<"&","a","m","p",";">>
LtEntity   == <<"&","l","t",";">>
GtEntity   == <<"&","g","t",";">>
QuotEntity == <<"&","q","u","o","t",";">>
AposEntity == <<"&","#","3","9",";">>

\* A plausible slip: the angle brackets are left as they are.
escapeHtmlNoAngle(source) ==
  ReplaceChar(
    ReplaceChar(
      ReplaceChar(source, "&", AmpEntity),
      "\"", QuotEntity),
    "'", AposEntity)

escapeHtml(source) ==
  ReplaceChar(
    ReplaceChar(
      ReplaceChar(
        ReplaceChar(
          ReplaceChar(source, "&", AmpEntity),
          "<", LtEntity),
        ">", GtEntity),
      "\"", QuotEntity),
    "'", AposEntity)

\* ---------------------------------------------------------------- JS values

\* A JavaScript value as the hooks see it: a string, undefined, or a value
\* that is not a string (what a property read finds on Object.prototype).
JsString(s) == [t |-> "string", s |-> s]

JsUndefined == [t |-> "undefined", s |-> <<>>]

JsObject == [t |-> "object", s |-> <<>>]

\* The truthiness test of `x ? a : b`, `x && y` and `!x`.
Truthy(v) == v.t = "object" \/ (v.t = "string" /\ v.s # <<>>)

\* The property names every object literal inherits from Object.prototype.
ObjectPrototypeKeys ==
  { <<"c","o","n","s","t","r","u","c","t","o","r">>, <<"_","_","p","r","o","t","o","_","_">>, <<"t","o","S","t","r","i","n","g">>, <<"v","a","l","u","e","O","f">>, <<"h","a","s","O","w","n","P","r","o","p","e","r","t","y">> }

\* table[key] on an object literal: an own property, else an inherited one,
\* else undefined.
PropertyRead(table, key) ==
  IF key \in DOMAIN table THEN JsString(table[key])
  ELSE IF key \in ObjectPrototypeKeys THEN JsObject
  ELSE JsUndefined

\* ------------------------------------------------------ language normalizer

PLAIN_LANGUAGE == <<"p","l","a","i","n","t","e","x","t">>

DIFF_LANGUAGES == { <<"d","i","f","f">> }

DIAGRAM_LANGUAGES == { <<"m","e","r","m","a","i","d">>, <<"p","l","a","n","t","u","m","l">> }

LANGUAGE_ALIASES ==
  (<<"c","o","n","s","o","l","e">> :> <<"b","a","s","h">>)
  @@ (<<"s","h","e","l","l">> :> <<"b","a","s","h">>)
  @@ (<<"s","h">> :> <<"b","a","s","h">>)
  @@ (<<"s","h","e","l","l","s","e","s","s","i","o","n">> :> <<"b","a","s","h">>)
  @@ (<<"z","s","h">> :> <<"b","a","s","h">>)
  @@ (<<"t","e","x","t">> :> <<"p","l","a","i","n","t","e","x","t">>)
  @@ (<<"p","l","a","i","n">> :> <<"p","l","a","i","n","t","e","x","t">>)
  @@ (<<"p","l","a","i","n","t","e","x","t">> :> <<"p","l","a","i","n","t","e","x","t">>)
  @@ (<<"t","x","t">> :> <<"p","l","a","i","n","t","e","x","t">>)
  @@ (<<"j","s">> :> <<"j","a","v","a","s","c","r","i","p","t">>)
  @@ (<<"j","a","v","a","s","c","r","i","p","t">> :> <<"j","a","v","a","s","c","r","i","p","t">>)
  @@ (<<"m","j","s">> :> <<"j","a","v","a","s","c","r","i","p","t">>)
  @@ (<<"c","j","s">> :> <<"j","a","v","a","s","c","r","i","p","t">>)
  @@ (<<"j","s","x">> :> <<"j","s","x">>)
  @@ (<<"t","s">> :> <<"t","y","p","e","s","c","r","i","p","t">>)
  @@ (<<"t","y","p","e","s","c","r","i","p","t">> :> <<"t","y","p","e","s","c","r","i","p","t">>)
  @@ (<<"m","e","r","m","a","i","d">> :> <<"m","e","r","m","a","i","d">>)
  @@ (<<"p","l","a","n","t","u","m","l">> :> <<"p","l","a","n","t","u","m","l">>)
  @@ (<<"p","u","m","l">> :> <<"p","l","a","n","t","u","m","l">>)
  @@ (<<"y","m","l">> :> <<"y","a","m","l">>)
  @@ (<<"m","d">> :> <<"m","a","r","k","d","o","w","n">>)
  @@ (<<"c","#">> :> <<"c","s","h","a","r","p">>)
  @@ (<<"d","o","c","k","e","r">> :> <<"d","o","c","k","e","r","f","i","l","e">>)

\* a ?? b
NullishOr(a, b) == IF a.t = "undefined" THEN b ELSE a

\* LANGUAGE_ALIASES[lower] ?? lower
AliasOrSelf(lower) ==
  NullishOr(PropertyRead(LANGUAGE_ALIASES, lower), JsString(lower))

\* normalizeLanguage of a string.
normalizeLanguage(language) == AliasOrSelf(ToLowerCase(language))

\* A plausible slip: only mermaid counts as a diagram language.
isDiagramLanguageMermaidOnly(language) ==
  IF ~Truthy(language) THEN FALSE
  ELSE language.t = "string" /\ language.s = <<"m","e","r","m","a","i","d">>

isDiagramLanguage(language) ==
  IF ~Truthy(language) THEN FALSE
  ELSE language.t = "string" /\ language.s \in DIAGRAM_LANGUAGES

isDiffLanguage(language) ==
  IF Truthy(language)
    THEN language.t = "string" /\ language.s \in DIFF_LANGUAGES
    ELSE FALSE

\* value.replace(/\r\n/g, "\n")
RECURSIVE normalizeNewlines(_)

\* The value with the line ending at k replaced, and those after it.
ReplaceFrom(value, k) ==
  IF k = 0 THEN value
  ELSE SubSeq(value, 1, k - 1) \o <<"\n">>
       \o normalizeNewlines(SubSeq(value, k + 2, Len(value)))

normalizeNewlines(value) == ReplaceFrom(value, IndexOf(value, <<"\r", "\n">>))

\* ------------------------------------------------------------ slug allocator

\* replace(/[\s]+/g, "-"): every run of whitespace becomes one hyphen.
RECURSIVE CollapseSpaces(_)
CollapseSpaces(s) ==
  IF s = <<>> THEN <<>>
  ELSE IF IsSpace(Head(s))
    THEN <<"-">> \o CollapseSpaces(TrimStart(s))
    ELSE <<Head(s)>> \o CollapseSpaces(Tail(s))

\* replace(/[^a-z0-9-_]/g, "")
StripDisallowed(s) ==
  SelectSeq(s, LAMBDA c :
    c \in Range(LowerLetters) \cup Range(DigitChars) \cup {"-", "_"})

\* replace(/-+/g, "-")
RECURSIVE CollapseHyphens(_)
CollapseHyphens(s) ==
  IF s = <<>> THEN <<>>
  ELSE IF Head(s) = "-" /\ Len(s) >= 2 /\ s[2] = "-"
    THEN CollapseHyphens(Tail(s))
    ELSE <<Head(s)>> \o CollapseHyphens(Tail(s))

\* replace(/^-|-$/g, ""): one leading and one trailing hyphen are removed.
DropLastHyphen(a) ==
  IF a # <<>> /\ a[Len(a)] = "-" THEN SubSeq(a, 1, Len(a) - 1) ELSE a

TrimHyphens(s) ==
  DropLastHyphen(IF s # <<>> /\ Head(s) = "-" THEN Tail(s) ELSE s)

\* base || "section"
OrSection(base) == IF base = <<>> THEN <<"s","e","c","t","i","o","n">> ELSE base

\* A plausible slip: the hyphen runs are collapsed before the whitespace is
\* turned into hyphens.
SlugBaseCollapseFirst(source) ==
  OrSection(TrimHyphens(StripDisallowed(CollapseSpaces(
              CollapseHyphens(Trim(ToLowerCase(source)))))))

\* The fallback of createSlug: the normalized base, or "section".
SlugBase(source) ==
  OrSection(TrimHyphens(CollapseHyphens(StripDisallowed(
              CollapseSpaces(Trim(ToLowerCase(source)))))))

\* counts.get(key) ?? 0
CountOf(counts, key) == IF key \in DOMAIN counts THEN counts[key] ELSE 0

\* counts.set(key, n)
MapSet(counts, key, n) ==
  [k \in DOMAIN counts \cup {key} |-> IF k = key THEN n ELSE counts[k]]

\* seen === 0 ? fallback : `${fallback}-${seen}`
SlugOf(fallback, seen) ==
  IF seen = 0 THEN fallback ELSE fallback \o <<"-">> \o NumberToString(seen)

\* A plausible slip: the count is written only on the first occurrence.
AllocateNoIncrement(fallback, seen, counts) ==
  [slug |-> SlugOf(fallback, seen),
   counts |-> IF seen = 0 THEN MapSet(counts, fallback, 1) ELSE counts]

AllocateFirstOnly(fallback, counts) ==
  AllocateNoIncrement(fallback, CountOf(counts, fallback), counts)

createSlugNoIncrement(source, counts) ==
  AllocateFirstOnly(SlugBase(source), counts)

\* The slug of a fallback seen so many times, and the map with its count
\* raised.
Allocate(fallback, seen, counts) ==
  [slug |-> SlugOf(fallback, seen),
   counts |-> MapSet(counts, fallback, seen + 1)]

AllocateSlug(fallback, counts) ==
  Allocate(fallback, CountOf(counts, fallback), counts)

\* createSlug: the slug it returns and the map it leaves behind.
createSlug(source, counts) == AllocateSlug(SlugBase(source), counts)

\* ------------------------------------------------- the baseline lexer (marked)
\* The block and inline grammar of the GFM lexer, for the constructs the
\* inputs use: blank lines, ATX headings, backtick fences, block quotes,
\* bullet lists of one-line items, HTML blocks and paragraphs; code spans,
\* inline HTML tags and text.

NL == <<"\n">>

IsBlankLine(l) == Trim(l) = <<>>

RECURSIVE LeadingCount(_, _)
LeadingCount(s, c) ==
  IF s # <<>> /\ Head(s) = c THEN 1 + LeadingCount(Tail(s), c) ELSE 0

\* The least index whose element satisfies P, or 0.
FirstIndex(s, P(_)) ==
  IF \E i \in DOMAIN s : P(s[i])
    THEN CHOOSE i \in DOMAIN s : P(s[i]) /\ \A j \in 1..(i - 1) : ~P(s[j])
    ELSE 0

IsLetter(c) == c \in Range(LowerLetters) \cup Range(UpperLetters)

IsFenceLine(l) == LeadingCount(l, BT) >= 3

FenceInfo(l) == Trim(SubSeq(l, LeadingCount(l, BT) + 1, Len(l)))

IsFenceClose(l) == IsFenceLine(l) /\ FenceInfo(l) = <<>>

IsHeadingLine(l) ==
  LET n == LeadingCount(l, "#")
  IN  n \in 1..6 /\ (Len(l) = n \/ IsSpace(l[n + 1]))

HeadingText(l) == Trim(SubSeq(l, LeadingCount(l, "#") + 1, Len(l)))

IsQuoteLine(l) == l # <<>> /\ Head(l) = ">"

\* The removal of the quote marker by the lexer: the marker and one space or tab.
StripQuoteMarker(l) ==
  IF Len(l) >= 2 /\ l[2] \in {" ", "\t"} THEN SubSeq(l, 3, Len(l))
  ELSE Tail(l)

IsBulletLine(l) == StartsWith(l, <<"-", " ">>)

\* Tags that open an HTML block closed by their end tag (CommonMark type 1).
RawHtmlTags == { <<"s","c","r","i","p","t">>, <<"p","r","e">>, <<"s","t","y","l","e">> }

\* Tags that open an HTML block closed by a blank line (CommonMark type 6).
BlockHtmlTags == { <<"d","e","t","a","i","l","s">>, <<"s","u","m","m","a","r","y">>, <<"t","a","b","l","e">>, <<"d","i","v">>, <<"p">> }

\* The tag name after the angle bracket that starts a line, lowercased.
LineTagName(l) ==
  IF l = <<>> \/ Head(l) # "<" THEN <<>>
  ELSE LET rest == Tail(l)
           k == FirstIndex(rest, LAMBDA c : ~IsLetter(c))
       IN  ToLowerCase(IF k = 0 THEN rest ELSE SubSeq(rest, 1, k - 1))

IsRawHtmlLine(l) == LineTagName(l) \in RawHtmlTags

IsBlockHtmlLine(l) == LineTagName(l) \in BlockHtmlTags

\* A line that ends a paragraph.
Interrupts(l) ==
  \/ IsBlankLine(l)
  \/ IsFenceLine(l)
  \/ IsHeadingLine(l)
  \/ IsQuoteLine(l)
  \/ IsBulletLine(l)
  \/ IsRawHtmlLine(l)
  \/ IsBlockHtmlLine(l)

\* The number of lines of the list that starts at the first line: its bullet
\* lines and the blank lines between two of them.
RECURSIVE ListExtent(_)
ListExtent(lines) ==
  IF lines = <<>> THEN 0
  ELSE IF IsBulletLine(Head(lines)) THEN 1 + ListExtent(Tail(lines))
  ELSE IF IsBlankLine(Head(lines))
    THEN LET k == FirstIndex(lines, LAMBDA l : ~IsBlankLine(l))
         IN  IF k # 0 /\ IsBulletLine(lines[k])
               THEN (k - 1) + ListExtent(SubSeq(lines, k, Len(lines)))
               ELSE 0
  ELSE 0

\* An inline HTML tag at the start of s: the index of its last character, or 0.
TagEnd(s) ==
  IF Len(s) < 3 \/ Head(s) # "<" THEN 0
  ELSE IF ~(IsLetter(s[2]) \/ (s[2] = "/" /\ IsLetter(s[3]))) THEN 0
  ELSE LET k == FirstIndex(Tail(s), LAMBDA c : c \in {"<", ">"})
       IN  IF k # 0 /\ s[k + 1] = ">" THEN k + 1 ELSE 0

\* A code span at the start of s: the index of its closing backtick, or 0.
CodeSpanEnd(s) ==
  IF Len(s) < 3 \/ Head(s) # BT THEN 0
  ELSE LET k == FirstIndex(Tail(s), LAMBDA c : c = BT)
       IN  IF k >= 2 THEN k + 1 ELSE 0

TextToken(acc) == IF acc = <<>> THEN <<>> ELSE <<[type |-> "text", text |-> acc]>>

RECURSIVE InlineTokens(_, _)

\* The inline tokens of a text that starts with a code span closed at c or
\* with a tag closed at t (0: it does not); acc is the text before s.
InlineFrom(s, acc, c, t) ==
  IF c # 0
    THEN TextToken(acc)
         \o <<[type |-> "codespan", text |-> SubSeq(s, 2, c - 1)]>>
         \o InlineTokens(SubSeq(s, c + 1, Len(s)), <<>>)
  ELSE IF t # 0
    THEN TextToken(acc)
         \o <<[type |-> "html", text |-> SubSeq(s, 1, t)]>>
         \o InlineTokens(SubSeq(s, t + 1, Len(s)), <<>>)
  ELSE InlineTokens(Tail(s), Append(acc, Head(s)))

\* The inline tokens of a text; adjacent text is one token.
InlineTokens(s, acc) ==
  IF s = <<>> THEN TextToken(acc)
  ELSE InlineFrom(s, acc, CodeSpanEnd(s), TagEnd(s))

\* lexer.inline
LexInline(s) == InlineTokens(s, <<>>)

\* The block tokens of a sequence of lines.  top is the lexer's state.top: a
\* run of plain lines is a paragraph at the top and in a block quote, and a
\* text token in a list item.
RECURSIVE LexLines(_, _)

\* The tokens of the lines after the first n.
After(lines, n, top) == LexLines(SubSeq(lines, n + 1, Len(lines)), top)

\* An index into the lines, 0 standing for no such line: the block runs to
\* that line, or up to the line before it.
Through(e, lines) == IF e = 0 THEN Len(lines) ELSE e

Before(e, lines) == IF e = 0 THEN Len(lines) ELSE e - 1

\* A fence opened by l and closed by the c-th of the lines after it (by the
\* end of the input when c is 0).
FenceBlock(l, rest, c, top) ==
  <<[type |-> "code",
     text |-> Join(IF c = 0 THEN rest ELSE SubSeq(rest, 1, c - 1), NL),
     lang |-> JsString(FenceInfo(l))]>>
  \o LexLines(IF c = 0 THEN <<>> ELSE SubSeq(rest, c + 1, Len(rest)), top)

HeadingToken(depth, text) ==
  [type |-> "heading", depth |-> depth, text |-> text,
   tokens |-> LexInline(text)]

QuoteToken(quoted) ==
  [type |-> "blockquote", raw |-> Join(quoted, NL),
   tokens |-> LexLines([i \in DOMAIN quoted |-> StripQuoteMarker(quoted[i])],
                       TRUE)]

ItemTokens(bullets) ==
  [i \in DOMAIN bullets |->
     LexLines(<<SubSeq(bullets[i], 3, Len(bullets[i]))>>, FALSE)]

ListToken(span) ==
  [type |-> "list",
   loose |-> \E i \in DOMAIN span : IsBlankLine(span[i]),
   items |-> ItemTokens(SelectSeq(span, IsBulletLine))]

HtmlToken(block) == [type |-> "html", text |-> Join(block, NL)]

ParagraphToken(block, top) ==
  [type |-> IF top THEN "paragraph" ELSE "text",
   tokens |-> LexInline(Join(block, NL))]

\* The token of the first n lines, and the tokens of the lines after them.
QuoteBlock(lines, n, top) ==
  <<QuoteToken(SubSeq(lines, 1, n))>> \o After(lines, n, top)

ListBlock(lines, n, top) ==
  <<ListToken(SubSeq(lines, 1, n))>> \o After(lines, n, top)

HtmlBlock(lines, n, top) ==
  <<HtmlToken(SubSeq(lines, 1, n))>> \o After(lines, n, top)

ParagraphBlock(lines, n, top) ==
  <<ParagraphToken(SubSeq(lines, 1, n), top)>> \o After(lines, n, top)

\* The end tag that closes the HTML block a line opens.
EndTag(l) == <<"<", "/">> \o LineTagName(l) \o <<">">>

HoldsTag(lines, tag) ==
  FirstIndex(lines, LAMBDA x : Includes(ToLowerCase(x), tag))

\* The tokens of the lines, from the kind of block the first line l opens.
LexFirst(l, rest, lines, top) ==
  IF IsBlankLine(l) THEN LexLines(rest, top)
  ELSE IF IsFenceLine(l)
    THEN FenceBlock(l, rest, FirstIndex(rest, IsFenceClose), top)
  ELSE IF IsHeadingLine(l)
    THEN <<HeadingToken(LeadingCount(l, "#"), HeadingText(l))>>
         \o LexLines(rest, top)
  ELSE IF IsQuoteLine(l)
    THEN QuoteBlock(lines,
           Before(FirstIndex(lines, LAMBDA x : ~IsQuoteLine(x)), lines), top)
  ELSE IF IsBulletLine(l) THEN ListBlock(lines, ListExtent(lines), top)
  ELSE IF IsRawHtmlLine(l)
    THEN HtmlBlock(lines, Through(HoldsTag(lines, EndTag(l)), lines), top)
  ELSE IF IsBlockHtmlLine(l)
    THEN HtmlBlock(lines, Before(FirstIndex(lines, IsBlankLine), lines), top)
  ELSE ParagraphBlock(lines, Through(FirstIndex(rest, Interrupts), lines), top)

LexLines(lines, top) ==
  IF lines = <<>> THEN <<>>
  ELSE LexFirst(Head(lines), Tail(lines), lines, top)

\* marked.lexer(src)
Lexer(src) == LexLines(Split(normalizeNewlines(src), "\n"), TRUE)

\* --------------------------------------------------------------- emoji filter

\* The shortcode table of node-emoji, for the shortcodes the inputs use; a
\* glyph is one character, named by its code point.
EMOJI ==
  (<<"s","p","a","r","k","l","e","s">> :> <<"U+2728">>) @@ (<<"f","i","r","e">> :> <<"U+1F525">>)

IsShortcodeChar(c) == IsWord(c) \/ c \in {"+", "-"}

\* The glyph of a shortcode name; an unknown shortcode is kept.
Glyph(name) ==
  IF name \in DOMAIN EMOJI THEN EMOJI[name] ELSE <<":">> \o name \o <<":">>

RECURSIVE emojify(_)

\* The text after a colon: rest[k] is the first character after it that no
\* shortcode name holds (k is 0 when there is none).
EmojifyAfterColon(rest, k) ==
  IF k >= 2 /\ rest[k] = ":"
    THEN Glyph(SubSeq(rest, 1, k - 1)) \o emojify(SubSeq(rest, k + 1, Len(rest)))
    ELSE <<":">> \o emojify(rest)

\* emojify: every :name: whose name is in the table becomes its glyph; any
\* other :name: is kept, and the scan goes on after it.
emojify(s) ==
  IF s = <<>> THEN <<>>
  ELSE IF Head(s) # ":" THEN <<Head(s)>> \o emojify(Tail(s))
  ELSE EmojifyAfterColon(Tail(s),
         FirstIndex(Tail(s), LAMBDA c : ~IsShortcodeChar(c)))

emojifyText(value) == emojify(value)

\* ------------------------------------------------------ highlighting engine
\* highlight.js is outside the repository: an engine is one of the ways it
\* can answer, the same for every call of one run of the program.  throws:
\* highlight and highlightAuto raise an error; guessed: the language
\* highlightAuto reports (undefined when no language scores).

NoGuess == [throws |-> FALSE, guessed |-> JsUndefined]

Engines ==
  { NoGuess,
    [throws |-> TRUE, guessed |-> JsUndefined],
    [throws |-> FALSE, guessed |-> JsString(<<"d","i","f","f">>)],
    [throws |-> FALSE, guessed |-> JsString(<<"i","n","i">>)] }

\* The names hljs.getLanguage knows, among those the inputs can produce.
HLJS_LANGUAGES ==
  { <<"b","a","s","h">>, <<"j","a","v","a","s","c","r","i","p","t">>, <<"j","s","x">>, <<"t","y","p","e","s","c","r","i","p","t">>, <<"d","i","f","f">>, <<"y","a","m","l">>, <<"m","a","r","k","d","o","w","n">>,
    <<"c","s","h","a","r","p">>, <<"d","o","c","k","e","r","f","i","l","e">>, <<"p","l","a","i","n","t","e","x","t">>, <<"i","n","i">>, <<"j","s","o","n">> }

\* The value of a highlight result: the code escaped (the token markup the
\* engine adds around words is left out).
HighlightValue(code) == escapeHtml(code)

\* The result of the catch block, and of the plain-text branch; call is
\* the function of the engine that was called, none in the plain-text branch.
Escaped(escaped, language, call) ==
  [threw |-> FALSE, value |-> escaped, language |-> language, call |-> call]

\* The result of hljs.highlight and of hljs.highlightAuto.
Highlighted(highlighted, language, call) ==
  [threw |-> FALSE, value |-> highlighted, language |-> language,
   call |-> call]

\* guessed ? normalizeLanguage(guessed) : normalizedLanguage
GuessedOr(guessed, normalizedLanguage) ==
  IF Truthy(guessed) THEN normalizeLanguage(guessed.s) ELSE normalizedLanguage

\* A plausible slip: no catch around the calls of the engine.
TryHighlightNoCatch(escaped, highlighted, normalizedLanguage, eng) ==
  IF Truthy(normalizedLanguage) /\ normalizedLanguage.t # "string"
    THEN Escaped(escaped, normalizedLanguage, "getLanguage")
  ELSE IF Truthy(normalizedLanguage) /\ normalizedLanguage.s # PLAIN_LANGUAGE
          /\ normalizedLanguage.s \in HLJS_LANGUAGES
    THEN IF eng.throws
           THEN [threw |-> TRUE, value |-> <<>>, language |-> JsUndefined]
           ELSE Highlighted(highlighted, normalizedLanguage, "highlight")
  ELSE IF normalizedLanguage = JsString(PLAIN_LANGUAGE)
    THEN Escaped(escaped, JsString(PLAIN_LANGUAGE), "none")
  ELSE IF eng.throws
    THEN [threw |-> TRUE, value |-> <<>>, language |-> JsUndefined]
  ELSE Highlighted(highlighted, GuessedOr(eng.guessed, normalizedLanguage),
                   "highlightAuto")

\* A plausible slip: the first branch does not exclude the plain language,
\* which the engine knows.
TryHighlightPlainKnown(escaped, highlighted, normalizedLanguage, eng) ==
  IF Truthy(normalizedLanguage) /\ normalizedLanguage.t # "string"
    THEN Escaped(escaped, normalizedLanguage, "getLanguage")
  ELSE IF Truthy(normalizedLanguage)
          /\ normalizedLanguage.s \in HLJS_LANGUAGES
    THEN IF eng.throws THEN Escaped(escaped, normalizedLanguage, "highlight")
         ELSE Highlighted(highlighted, normalizedLanguage, "highlight")
  ELSE IF normalizedLanguage = JsString(PLAIN_LANGUAGE)
    THEN Escaped(escaped, JsString(PLAIN_LANGUAGE), "none")
  ELSE IF eng.throws
    THEN Escaped(escaped, normalizedLanguage, "highlightAuto")
  ELSE Highlighted(highlighted, GuessedOr(eng.guessed, normalizedLanguage),
                   "highlightAuto")

\* The try block of highlightCode and its catch: escaped is
\* escapeHtml(valueToHighlight), highlighted the value of the engine.
TryHighlight(escaped, highlighted, normalizedLanguage, eng) ==
  IF Truthy(normalizedLanguage) /\ normalizedLanguage.t # "string"
    THEN Escaped(escaped, normalizedLanguage, "getLanguage")
  ELSE IF Truthy(normalizedLanguage) /\ normalizedLanguage.s # PLAIN_LANGUAGE
          /\ normalizedLanguage.s \in HLJS_LANGUAGES
    THEN IF eng.throws THEN Escaped(escaped, normalizedLanguage, "highlight")
         ELSE Highlighted(highlighted, normalizedLanguage, "highlight")
  ELSE IF normalizedLanguage = JsString(PLAIN_LANGUAGE)
    THEN Escaped(escaped, JsString(PLAIN_LANGUAGE), "none")
  ELSE IF eng.throws
    THEN Escaped(escaped, normalizedLanguage, "highlightAuto")
  ELSE Highlighted(highlighted, GuessedOr(eng.guessed, normalizedLanguage),
                   "highlightAuto")

HighlightNormalized(valueToHighlight, normalizedLanguage, eng) ==
  TryHighlight(escapeHtml(valueToHighlight), HighlightValue(valueToHighlight),
               normalizedLanguage, eng)

\* highlightCode: threw says that an error left the function (the call of
\* normalizeLanguage on a value that is not a string sits before the try).
highlightCode(code, language, eng) ==
  IF Truthy(language) /\ language.t # "string"
    THEN [threw |-> TRUE, value |-> <<>>, language |-> JsUndefined]
  ELSE HighlightNormalized(
         normalizeNewlines(code),
         IF Truthy(language) THEN normalizeLanguage(language.s) ELSE JsUndefined,
         eng)

\* ------------------------------------------------------- code block renderer

Nbsp == <<"&","n","b","s","p",";">>

RECURSIVE DropTrailingEmpty(_)
DropTrailingEmpty(segments) ==
  IF segments # <<>> /\ segments[Len(segments)] = <<>>
    THEN DropTrailingEmpty(SubSeq(segments, 1, Len(segments) - 1))
    ELSE segments

\* A plausible slip: the trailing empty segments are kept.
toLinesKeepTrailing(source) == Split(normalizeNewlines(source), "\n")

toLines(source) == DropTrailingEmpty(Split(normalizeNewlines(source), "\n"))

\* A plausible slip: the first character is classified whatever the language.
DiffClassAnyLanguage(rawLine, language) ==
  IF rawLine # <<>>
    THEN IF rawLine[1] = "+" THEN <<"code-line-addition">>
         ELSE IF rawLine[1] = "-" THEN <<"code-line-deletion">>
         ELSE IF rawLine[1] = "@" THEN <<"code-line-hunk">>
         ELSE <<>>
    ELSE <<>>

\* The class of a line of a diff, from its first character.
DiffClass(rawLine, language) ==
  IF isDiffLanguage(language) /\ rawLine # <<>>
    THEN IF rawLine[1] = "+" THEN <<"code-line-addition">>
         ELSE IF rawLine[1] = "-" THEN <<"code-line-deletion">>
         ELSE IF rawLine[1] = "@" THEN <<"code-line-hunk">>
         ELSE <<>>
    ELSE <<>>

\* highlightedLine.length > 0 ? highlightedLine : "&nbsp;"
SafeLine(highlightedLine) ==
  IF highlightedLine # <<>> THEN highlightedLine ELSE Nbsp

\* The class list and the content of one code-line span.
CodeLine(rawLine, highlightedLines, index, language) ==
  [classes |-> <<"code-line">>
               \o (IF rawLine = <<>> THEN <<"code-line-empty">> ELSE <<>>)
               \o DiffClass(rawLine, language),
   html |-> SafeLine(IF index <= Len(highlightedLines)
                       THEN highlightedLines[index]
                       ELSE escapeHtml(rawLine))]

WrapLines(rawLines, highlightedLines, language) ==
  IF rawLines = <<>>
    THEN <<[classes |-> <<"code-line", "code-line-empty">>, html |-> Nbsp]>>
    ELSE [i \in DOMAIN rawLines |->
            CodeLine(rawLines[i], highlightedLines, i, language)]

\* wrapCodeLines: the code-line spans, in order.
wrapCodeLines(highlighted, raw, language) ==
  WrapLines(toLines(raw), toLines(highlighted), language)

\* ----------------------------------------------------------- diagram renderer

DIAGRAM_METADATA ==
  (<<"m","e","r","m","a","i","d">> :> [label |-> "Mermaid", initialState |-> "pending",
                 message |-> "Rendering Mermaid diagram...",
                 copyLabel |-> "Copy Mermaid source"])
  @@ (<<"p","l","a","n","t","u","m","l">> :> [label |-> "PlantUML", initialState |-> "unsupported",
                     message |-> "PlantUML preview requires an external renderer. The source is shown below.",
                     copyLabel |-> "Copy PlantUML source"])

createDiagramTargetId(kind, id) ==
  <<"d","i","a","g","r","a","m","-">> \o kind \o <<"-">> \o NumberToString(id)

\* renderDiagram: the figure, with the strings its template interpolates.
renderDiagram(kind, source, targetId) ==
  [kind |-> "diagram",
   diagramKind |-> kind,
   state |-> DIAGRAM_METADATA[kind].initialState,
   targetId |-> targetId,
   message |-> DIAGRAM_METADATA[kind].message,
   source |-> escapeHtml(normalizeNewlines(source))]

\* ------------------------------------------------------------- callout parser

CALLOUT_VARIANTS ==
  (<<"n","o","t","e">> :> [key |-> <<"n","o","t","e">>, label |-> <<"N","o","t","e">>, icon |-> <<"U+2139", "U+FE0F">>])
  @@ (<<"t","i","p">> :> [key |-> <<"t","i","p">>, label |-> <<"T","i","p">>, icon |-> <<"U+1F4A1">>])
  @@ (<<"i","m","p","o","r","t","a","n","t">> :> [key |-> <<"i","m","p","o","r","t","a","n","t">>, label |-> <<"I","m","p","o","r","t","a","n","t">>, icon |-> <<"U+2757">>])
  @@ (<<"w","a","r","n","i","n","g">> :> [key |-> <<"w","a","r","n","i","n","g">>, label |-> <<"W","a","r","n","i","n","g">>, icon |-> <<"U+26A0", "U+FE0F">>])
  @@ (<<"c","a","u","t","i","o","n">> :> [key |-> <<"c","a","u","t","i","o","n">>, label |-> <<"C","a","u","t","i","o","n">>, icon |-> <<"U+26A0", "U+FE0F">>])

\* The fields read off a variant of the table.
VariantFields(variant) ==
  [key |-> JsString(variant.key), label |-> JsString(variant.label),
   icon |-> JsString(variant.icon)]

OwnVariant(type) == VariantFields(CALLOUT_VARIANTS[type])

\* CALLOUT_VARIANTS[type] ?? CALLOUT_VARIANTS.note, and the fields read off
\* the result: a value inherited from Object.prototype is not nullish, and
\* has no key, label or icon.
VariantOf(type) ==
  IF type \in ObjectPrototypeKeys
    THEN [key |-> JsUndefined, label |-> JsUndefined, icon |-> JsUndefined]
  ELSE OwnVariant(IF type \in DOMAIN CALLOUT_VARIANTS THEN type ELSE <<"n","o","t","e">>)

NoHeader == [matched |-> FALSE, rawType |-> <<>>, rawCustomTitle |-> JsUndefined]

\* The end of the header pattern, (?:\s+(.*))?$, on what follows the bracket.
HeaderTitle(rawType, after) ==
  IF after = <<>>
    THEN [matched |-> TRUE, rawType |-> rawType, rawCustomTitle |-> JsUndefined]
  ELSE IF IsSpace(after[1]) /\ "\n" \notin Range(after)
    THEN [matched |-> TRUE, rawType |-> rawType,
          rawCustomTitle |-> JsString(TrimStart(after))]
  ELSE NoHeader

\* The tag (\w+)\] of the pattern: rest[k] is the first character of rest
\* that is no word character.
HeaderTag(rest, k) ==
  IF k < 2 \/ rest[k] # "]" THEN NoHeader
  ELSE HeaderTitle(SubSeq(rest, 1, k - 1), SubSeq(rest, k + 1, Len(rest)))

\* s.match(/^\[!(\w+)\](?:\s+(.*))?$/)
HeaderMatch(s) ==
  IF ~StartsWith(s, <<"[", "!">>) THEN NoHeader
  ELSE HeaderTag(SubSeq(s, 3, Len(s)),
                 FirstIndex(SubSeq(s, 3, Len(s)), LAMBDA c : ~IsWord(c)))

\* line.replace(/^> ?/, "")
StripQuotePrefix(line) ==
  IF line = <<>> \/ Head(line) # ">" THEN line
  ELSE IF Len(line) >= 2 /\ line[2] = " " THEN SubSeq(line, 3, Len(line))
  ELSE Tail(line)

\* while (rest.length > 0 && rest.at(-1)?.trim() === "") rest.pop()
RECURSIVE PopBlankLines(_)
PopBlankLines(rest) ==
  IF rest # <<>> /\ Trim(rest[Len(rest)]) = <<>>
    THEN PopBlankLines(SubSeq(rest, 1, Len(rest) - 1))
    ELSE rest

\* The loop that shifts leading lines: a line is shifted when it is truthy
\* (not the empty string) and blank after trimming.
RECURSIVE ShiftBlankLines(_)
ShiftBlankLines(rest) ==
  IF rest # <<>> /\ Head(rest) # <<>> /\ Trim(Head(rest)) = <<>>
    THEN ShiftBlankLines(Tail(rest))
    ELSE rest

NoCallout ==
  [matched |-> FALSE, variant |-> JsUndefined, title |-> JsUndefined,
   icon |-> JsUndefined, contentMarkdown |-> <<>>, bodyTokens |-> <<>>]

\* rawCustomTitle?.trim()
TrimOptional(v) == IF v.t = "string" THEN JsString(Trim(v.s)) ELSE JsUndefined

\* customTitle && customTitle.length > 0 ? customTitle : variant.label
TitleOr(customTitle, label) == IF Truthy(customTitle) THEN customTitle ELSE label

\* contentMarkdown.trim().length > 0 ? marked.lexer(contentMarkdown)
\*                                   : marked.lexer("")
BodyTokens(contentMarkdown) ==
  Lexer(IF Trim(contentMarkdown) # <<>> THEN contentMarkdown ELSE <<>>)

\* The value parseCallout returns for a header that matched.
CalloutMatch(m, variant, contentMarkdown) ==
  [matched |-> TRUE,
   variant |-> variant.key,
   title |-> TitleOr(TrimOptional(m.rawCustomTitle), variant.label),
   icon |-> variant.icon,
   contentMarkdown |-> contentMarkdown,
   bodyTokens |-> BodyTokens(contentMarkdown)]

\* parseCallout from the lines of the quote, their markers removed, and the
\* match m of the header pattern on the first.
CalloutOf(lines, m) ==
  IF Head(lines) = <<>> \/ ~m.matched THEN NoCallout
  ELSE CalloutMatch(m, VariantOf(ToLowerCase(m.rawType)),
                    Join(ShiftBlankLines(PopBlankLines(Tail(lines))), NL))

StrippedLines(split) == [i \in DOMAIN split |-> StripQuotePrefix(split[i])]

\* A plausible slip: the header is accepted without its exclamation mark.
HeaderMatchNoBang(first) ==
  HeaderMatch(IF StartsWith(first, <<"[">>) /\ ~StartsWith(first, <<"[", "!">>)
                THEN <<"[", "!">> \o Tail(first) ELSE first)

CalloutInNoBang(lines) == CalloutOf(lines, HeaderMatchNoBang(Trim(Head(lines))))

parseCalloutNoBang(token) ==
  IF token.raw = <<>> THEN NoCallout
  ELSE CalloutInNoBang(StrippedLines(Split(token.raw, "\n")))

CalloutIn(lines) == CalloutOf(lines, HeaderMatch(Trim(Head(lines))))

\* parseCallout: matched is FALSE where the source returns undefined.
parseCallout(token) ==
  IF token.raw = <<>> THEN NoCallout
  ELSE CalloutIn(StrippedLines(Split(token.raw, "\n")))

\* ------------------------------------------- baseline renderer (marked) hooks

\* An ampersand that starts a character reference: &name; or &#digits;
IsEntityName(body) ==
  \/ \A i \in DOMAIN body : IsWord(body[i])
  \/ /\ Len(body) >= 2
     /\ body[1] = "#"
     /\ \A i \in 2..Len(body) : body[i] \in Range(DigitChars)

\* s[k + 1] is the first semicolon after the ampersand s starts with.
EntityEndsAt(s, k) == k >= 2 /\ IsEntityName(SubSeq(s, 2, k))

IsEntityAt(s) ==
  /\ Len(s) >= 3
  /\ Head(s) = "&"
  /\ EntityEndsAt(s, FirstIndex(Tail(s), LAMBDA c : c = ";"))

\* The escape of the baseline renderer for text: like escapeHtml, but an
\* ampersand that starts a character reference is kept.
RECURSIVE escapeText(_)
escapeText(s) ==
  IF s = <<>> THEN <<>>
  ELSE (IF Head(s) = "&" THEN (IF IsEntityAt(s) THEN <<"&">> ELSE AmpEntity)
        ELSE IF Head(s) = "<" THEN LtEntity
        ELSE IF Head(s) = ">" THEN GtEntity
        ELSE IF Head(s) = "\"" THEN QuotEntity
        ELSE IF Head(s) = "'" THEN AposEntity
        ELSE <<Head(s)>>)
       \o escapeText(Tail(s))

RECURSIVE parseInline(_)

\* The text renderer of the baseline: a token that carries inline tokens (the
\* text of a list item) is rendered from them, any other from its text.
originalText(token) ==
  IF "tokens" \in DOMAIN token THEN parseInline(token.tokens)
  ELSE escapeText(token.text)

\* renderer.text: the hook expands emoji in what the baseline returns.
rendererText(token) == emojifyText(originalText(token))

\* One inline token: text goes through the text hook; a code span and an
\* inline HTML tag are rendered by the baseline.
InlineHtml(token) ==
  IF token.type = "text" THEN rendererText(token)
  ELSE IF token.type = "codespan"
    THEN <<"<","c","o","d","e",">">> \o escapeHtml(token.text) \o <<"<","/","c","o","d","e",">">>
  ELSE token.text

\* parser.parseInline
parseInline(tokens) ==
  IF tokens = <<>> THEN <<>>
  ELSE InlineHtml(Head(tokens)) \o parseInline(Tail(tokens))

\* What a renderer leaves: the blocks it returns and the state of the call,
\* or an error.
Rendered(nodes, st) == [threw |-> FALSE, html |-> nodes, st |-> st]

Thrown(st) == [threw |-> TRUE, html |-> <<>>, st |-> st]

\* The heading with the slug r that createSlug allocated.
HeadingWith(token, st, r) ==
  Rendered(<<[kind |-> "heading", depth |-> token.depth, id |-> r.slug,
              html |-> parseInline(token.tokens)]>>,
           [st EXCEPT !.slugCounts = r.counts])

\* renderer.heading
rendererHeading(token, st) ==
  HeadingWith(token, st, createSlug(token.text, st.slugCounts))

\* The code block of renderer.code, from the language it settled on.
CodeBlock(blockId, highlighted, codeContent, finalLanguage) ==
  [kind |-> "code",
   id |-> <<"c","o","d","e","-","b","l","o","c","k","-">> \o NumberToString(blockId),
   blockClass |-> IF Truthy(finalLanguage) THEN finalLanguage.s ELSE <<"p","l","a","i","n">>,
   diff |-> isDiffLanguage(finalLanguage),
   hasLanguage |-> Truthy(finalLanguage),
   dataLanguage |-> IF Truthy(finalLanguage) THEN escapeHtml(finalLanguage.s)
                    ELSE <<>>,
   languageClass |-> IF Truthy(finalLanguage) THEN finalLanguage.s ELSE <<>>,
   lines |-> wrapCodeLines(highlighted, codeContent, finalLanguage)]

\* The code block from the result h of highlightCode; finalLanguage is
\* detected ?? normalizedLanguage.
BlockOf(blockId, st, codeContent, normalizedLanguage, h) ==
  IF h.threw THEN Thrown(st)
  ELSE Rendered(<<CodeBlock(blockId, h.value, codeContent,
                            NullishOr(h.language, normalizedLanguage))>>, st)

HighlightedBlock(blockId, st, codeContent, normalizedLanguage, eng) ==
  BlockOf(blockId, [st EXCEPT !.codeBlockId = blockId], codeContent,
          normalizedLanguage, highlightCode(codeContent, normalizedLanguage, eng))

DiagramBlock(kind, id, st, source) ==
  Rendered(<<renderDiagram(kind, source, createDiagramTargetId(kind, id))>>,
           [st EXCEPT !.diagramId = id])

\* A plausible slip: the counters are read and never raised.
CodeWithoutCount(token, st, eng, normalizedLanguage) ==
  IF Truthy(normalizedLanguage) /\ isDiagramLanguage(normalizedLanguage)
    THEN DiagramBlock(normalizedLanguage.s, st.diagramId, st, token.text)
    ELSE HighlightedBlock(st.codeBlockId, st, normalizeNewlines(token.text),
                          normalizedLanguage, eng)

\* renderer.code, from the language it normalized.
CodeWith(token, st, eng, normalizedLanguage) ==
  IF Truthy(normalizedLanguage) /\ isDiagramLanguage(normalizedLanguage)
    THEN DiagramBlock(normalizedLanguage.s, st.diagramId + 1, st, token.text)
    ELSE HighlightedBlock(st.codeBlockId + 1, st, normalizeNewlines(token.text),
                          normalizedLanguage, eng)

\* renderer.code
rendererCode(token, st, eng) ==
  CodeWith(token, st, eng,
           IF token.lang.t = "string" /\ Trim(token.lang.s) # <<>>
             THEN normalizeLanguage(token.lang.s) ELSE JsUndefined)

RECURSIVE ParserParse(_, _, _, _)
RECURSIVE RenderToken(_, _, _, _)
RECURSIVE RenderItems(_, _, _, _)
RECURSIVE originalBlockquote(_, _, _)
RECURSIVE rendererBlockquote(_, _, _)

\* The block quote around its rendered tokens.
QuoteAround(r) ==
  IF r.threw THEN r
  ELSE Rendered(<<[kind |-> "blockquote", body |-> r.html]>>, r.st)

\* The blockquote renderer of the baseline: the inner tokens, rendered with
\* the same renderer.
originalBlockquote(token, st, eng) ==
  QuoteAround(ParserParse(token.tokens, st, eng, TRUE))

\* The callout around its rendered body r: escapeHtml of a title or an icon
\* that is undefined raises a TypeError.
CalloutAround(callout, r) ==
  IF r.threw THEN r
  ELSE IF callout.title.t # "string" \/ callout.icon.t # "string"
    THEN Thrown(r.st)
  ELSE Rendered(
         <<[kind |-> "callout",
            variant |-> IF callout.variant.t = "string"
                          THEN callout.variant.s ELSE <<"u","n","d","e","f","i","n","e","d">>,
            icon |-> escapeHtml(callout.icon.s),
            title |-> escapeHtml(callout.title.s),
            hasContent |-> r.html # <<>>,
            content |-> r.html]>>, r.st)

\* A plausible slip: the body of a callout is rendered as a document of its
\* own, from fresh counters, and the counters of the call are left alone.
BlockquoteWithOwnState(callout, token, st, eng) ==
  IF ~callout.matched THEN originalBlockquote(token, st, eng)
  ELSE LET r == CalloutAround(callout,
                  IF Len(callout.bodyTokens) > 0
                    THEN ParserParse(callout.bodyTokens,
                                     [slugCounts |-> <<>>, codeBlockId |-> 0,
                                      diagramId |-> 0], eng, TRUE)
                    ELSE Rendered(<<>>, st))
       IN  IF r.threw THEN r ELSE Rendered(r.html, st)

\* renderer.blockquote, from what parseCallout returned.
BlockquoteWith(callout, token, st, eng) ==
  IF ~callout.matched THEN originalBlockquote(token, st, eng)
  ELSE CalloutAround(callout,
         IF Len(callout.bodyTokens) > 0
           THEN ParserParse(callout.bodyTokens, st, eng, TRUE)
           ELSE Rendered(<<>>, st))

\* renderer.blockquote
rendererBlockquote(token, st, eng) ==
  BlockquoteWith(parseCallout(token), token, st, eng)

\* A result r followed by the result of what comes after it: the error of
\* either ends the walk.
ThenItems(r, more) ==
  IF more.threw THEN more ELSE Rendered(<<r.html>> \o more.html, more.st)

ItemsAfter(r, items, eng, loose) ==
  IF r.threw THEN r ELSE ThenItems(r, RenderItems(items, r.st, eng, loose))

\* The items of a list, each rendered from its tokens.
RenderItems(items, st, eng, loose) ==
  IF items = <<>> THEN Rendered(<<>>, st)
  ELSE ItemsAfter(ParserParse(Head(items), st, eng, loose), Tail(items),
                  eng, loose)

ListAround(r) ==
  IF r.threw THEN r ELSE Rendered(<<[kind |-> "list", items |-> r.html]>>, r.st)

\* One block token, rendered by its hook or by the baseline.
RenderToken(token, st, eng, top) ==
  IF token.type = "heading" THEN rendererHeading(token, st)
  ELSE IF token.type = "code" THEN rendererCode(token, st, eng)
  ELSE IF token.type = "blockquote" THEN rendererBlockquote(token, st, eng)
  ELSE IF token.type = "paragraph"
    THEN Rendered(<<[kind |-> "paragraph", html |-> parseInline(token.tokens)]>>, st)
  ELSE IF token.type = "text"
    THEN Rendered(<<[kind |-> IF top THEN "paragraph" ELSE "text",
                     html |-> rendererText(token)]>>, st)
  ELSE IF token.type = "list"
    THEN ListAround(RenderItems(token.items, st, eng, token.loose))
  ELSE Rendered(<<[kind |-> "html", html |-> token.text]>>, st)

Then(r, more) ==
  IF more.threw THEN more ELSE Rendered(r.html \o more.html, more.st)

ParseAfter(r, tokens, eng, top) ==
  IF r.threw THEN r ELSE Then(r, ParserParse(tokens, r.st, eng, top))

\* parser.parse: the tokens in document order, the state threaded through; an
\* error of a hook ends the walk.
ParserParse(tokens, st, eng, top) ==
  IF tokens = <<>> THEN Rendered(<<>>, st)
  ELSE ParseAfter(RenderToken(Head(tokens), st, eng, top), Tail(tokens),
                  eng, top)

\* ------------------------------------------------------------ renderMarkdown
\* One call of renderMarkdown is a walk of the parser over the top-level
\* tokens of its input: each step is the call of one hook (or of a baseline
\* renderer) on the next token.  pending holds the inputs of the calls still
\* to come; engine is the highlighting engine of the run.

VARIABLES pending, engine, markdown, tokens, pos, slugCounts, codeBlockId,
          diagramId, out, status, prevMarkdown, prevOut

\* The previewer around renderMarkdown (main, the preview server and the
\* page it serves): the watched file, the change events so far, the watcher,
\* the debounce timer, the calls of renderAndBroadcast in flight, the last
\* payload of the server, the broadcasts so far, the event stream of the
\* page and what the page shows.
VARIABLES file, epoch, watching, debounceTimer, reading, lastPayload,
          broadcasts, connected, inbox, page

renderVars == <<pending, engine, markdown, tokens, pos, slugCounts,
                codeBlockId, diagramId, out, status, prevMarkdown, prevOut>>

previewVars == <<file, epoch, watching, debounceTimer, reading, lastPayload,
                 broadcasts, connected, inbox, page>>

\* The debounce of main in time: the clock in milliseconds, the timeouts
\* the event loop holds, the value of debounceTimer, the arrivals of the
\* watch events, the times of those that were accepted and the calls of
\* renderAndBroadcast that the timeouts started.
VARIABLES clock, timeouts, handle, arrivals, accepted, runs

\* The event streams of the preview server: the set clients, the streams of
\* the requests to /events so far, the last payload and whether the server
\* listens.
VARIABLES clients, streams, latest, listening

\* The Mermaid assets of the preview server: the two caches, the directory
\* of the distribution, the reads in flight and the responses so far.
VARIABLES mermaidAssetCache, mermaidAssetErrors, mermaidDistDir, loads,
          responses

\* The Mermaid diagrams of the page: the module, the error of its import,
\* the diagrams of the document and the render passes.
VARIABLES mermaidModule, mermaidLoadError, diagrams, passes

burstVars == <<clock, timeouts, handle, arrivals, accepted, runs>>

streamVars == <<clients, streams, latest, listening>>

assetVars == <<mermaidAssetCache, mermaidAssetErrors, mermaidDistDir, loads,
               responses>>

diagramVars == <<mermaidModule, mermaidLoadError, diagrams, passes>>

vars == <<renderVars, previewVars, burstVars, streamVars, assetVars,
          diagramVars>>

\* A plausible slip: the counters are module-level and live across calls.
InitialCountersShared ==
  [slugCounts |-> slugCounts, codeBlockId |-> codeBlockId, diagramId |-> diagramId]

\* The locals renderMarkdown declares: what every call starts from.
InitialCounters == [slugCounts |-> <<>>, codeBlockId |-> 0, diagramId |-> 0]

\* The state the hooks share during the current call.
CallState ==
  [slugCounts |-> slugCounts, codeBlockId |-> codeBlockId, diagramId |-> diagramId]

\* What the page shows before the first message: the shell, its status line
\* hidden.
ShellPage ==
  [appIsError |-> FALSE, statusHidden |-> TRUE, statusIsError |-> FALSE,
   html |-> <<>>]

\* No payload yet: lastPayload is undefined.
NoPayload == [html |-> <<>>, isError |-> FALSE, defined |-> FALSE]

\* A file that cannot be read.
Unreadable == [readable |-> FALSE, content |-> <<>>]

\* renderMarkdown called on its own: no previewer runs.
NoPreview ==
  /\ file = Unreadable
  /\ epoch = 0
  /\ watching = FALSE
  /\ debounceTimer = "undefined"
  /\ reading = {}
  /\ lastPayload = NoPayload
  /\ broadcasts = <<>>
  /\ connected = FALSE
  /\ inbox = <<>>
  /\ page = ShellPage

\* No event has arrived and no timeout is set.
NoBurst ==
  /\ clock = 0
  /\ timeouts = {}
  /\ handle = 0
  /\ arrivals = 0
  /\ accepted = <<>>
  /\ runs = <<>>

\* The server listens; no request to /events was made and nothing was
\* broadcast.
NoStreams ==
  /\ clients = {}
  /\ streams = <<>>
  /\ latest = 0
  /\ listening = TRUE

\* No asset was requested.
NoAssets ==
  /\ mermaidAssetCache = {}
  /\ mermaidAssetErrors = {}
  /\ mermaidDistDir = FALSE
  /\ loads = {}
  /\ responses = <<>>

\* The page holds no diagram and has not imported the Mermaid module.
NoDiagrams ==
  /\ mermaidModule = FALSE
  /\ mermaidLoadError = FALSE
  /\ diagrams = <<>>
  /\ passes = <<>>

\* No call of renderMarkdown is under way.
NoRender ==
  /\ pending = <<>>
  /\ engine = NoGuess
  /\ markdown = <<>>
  /\ tokens = <<>>
  /\ pos = 1
  /\ slugCounts = <<>>
  /\ codeBlockId = 0
  /\ diagramId = 0
  /\ out = <<>>
  /\ status = "idle"
  /\ prevMarkdown = <<>>
  /\ prevOut = <<>>

\* The input documents: up to n snippets of a pool, a blank line between two.
Docs(pool, n) ==
  { Join(blocks, <<"\n", "\n">>) :
      blocks \in UNION { [1..k -> pool] : k \in 1..n } }

\* The state before the first call: nothing rendered yet.
Idle(docs, engines, calls) ==
  /\ pending \in UNION { [1..k -> docs] : k \in 1..calls }
  /\ engine \in engines
  /\ markdown = <<>>
  /\ tokens = <<>>
  /\ pos = 1
  /\ slugCounts = <<>>
  /\ codeBlockId = 0
  /\ diagramId = 0
  /\ out = <<>>
  /\ status = "idle"
  /\ prevMarkdown = <<>>
  /\ prevOut = <<>>
  /\ NoPreview
  /\ NoBurst
  /\ NoStreams
  /\ NoAssets
  /\ NoDiagrams

\* renderMarkdown is called on the next input: fresh locals, and the lexer
\* run of marked.parse.  The result of a call that returned is remembered.
Render ==
  /\ status # "rendering"
  /\ pending # <<>>
  /\ markdown' = Head(pending)
  /\ pending' = Tail(pending)
  /\ tokens' = Lexer(Head(pending))
  /\ pos' = 1
  /\ slugCounts' = InitialCounters.slugCounts
  /\ codeBlockId' = InitialCounters.codeBlockId
  /\ diagramId' = InitialCounters.diagramId
  /\ out' = <<>>
  /\ status' = "rendering"
  /\ IF status = "returned"
       THEN prevMarkdown' = markdown /\ prevOut' = <<out>>
       ELSE UNCHANGED <<prevMarkdown, prevOut>>
  /\ UNCHANGED <<engine, previewVars, burstVars, streamVars, assetVars,
                 diagramVars>>

\* The effect of one hook call: its HTML is appended and its state kept, or
\* its error leaves renderMarkdown (marked.parse rethrows it).
Step(r) ==
  /\ IF r.threw
       THEN /\ status' = "thrown"
            /\ UNCHANGED <<pos, out, slugCounts, codeBlockId, diagramId>>
       ELSE /\ status' = "rendering"
            /\ pos' = pos + 1
            /\ out' = out \o r.html
            /\ slugCounts' = r.st.slugCounts
            /\ codeBlockId' = r.st.codeBlockId
            /\ diagramId' = r.st.diagramId
  /\ UNCHANGED <<pending, engine, markdown, tokens, prevMarkdown, prevOut,
                 previewVars, burstVars, streamVars, assetVars, diagramVars>>

AtToken(types) ==
  /\ status = "rendering"
  /\ pos <= Len(tokens)
  /\ tokens[pos].type \in types

Heading ==
  /\ AtToken({"heading"})
  /\ Step(rendererHeading(tokens[pos], CallState))

Blockquote ==
  /\ AtToken({"blockquote"})
  /\ Step(rendererBlockquote(tokens[pos], CallState, engine))

Code ==
  /\ AtToken({"code"})
  /\ Step(rendererCode(tokens[pos], CallState, engine))

\* A token no hook is installed for: a paragraph, a list, an HTML block.
Baseline ==
  /\ AtToken({"paragraph", "text", "list", "html"})
  /\ Step(RenderToken(tokens[pos], CallState, engine, TRUE))

\* marked.parse returns the HTML.
Return ==
  /\ status = "rendering"
  /\ pos > Len(tokens)
  /\ status' = "returned"
  /\ UNCHANGED <<pending, engine, markdown, tokens, pos, slugCounts,
                 codeBlockId, diagramId, out, prevMarkdown, prevOut,
                 previewVars, burstVars, streamVars, assetVars, diagramVars>>

Next == Render \/ Heading \/ Blockquote \/ Code \/ Baseline \/ Return

\* --------------------------------------------------- what a document holds

RECURSIVE Concat(_)
Concat(seqs) == IF seqs = <<>> THEN <<>> ELSE Head(seqs) \o Concat(Tail(seqs))

\* The tokens the parser walks, in document order: the inner tokens of a
\* block quote (the tokens of the body, for a callout) and of a list follow
\* their parent.
RECURSIVE TokensIn(_)
TokensIn(toks) ==
  IF toks = <<>> THEN <<>>
  ELSE LET t == Head(toks)
           inner ==
             IF t.type = "blockquote"
               THEN IF parseCallout(t).matched THEN parseCallout(t).bodyTokens
                    ELSE t.tokens
             ELSE IF t.type = "list" THEN Concat(t.items)
             ELSE <<>>
       IN  <<t>> \o TokensIn(inner) \o TokensIn(Tail(toks))

\* The blocks of an output, in document order.
RECURSIVE NodesIn(_)
NodesIn(nodes) ==
  IF nodes = <<>> THEN <<>>
  ELSE LET n == Head(nodes)
           inner ==
             IF n.kind = "callout" THEN n.content
             ELSE IF n.kind = "blockquote" THEN n.body
             ELSE IF n.kind = "list" THEN Concat(n.items)
             ELSE <<>>
       IN  <<n>> \o NodesIn(inner) \o NodesIn(Tail(nodes))

OfKind(nodes, kind) == SelectSeq(NodesIn(nodes), LAMBDA n : n.kind = kind)

OfType(toks, type) == SelectSeq(TokensIn(toks), LAMBDA t : t.type = type)

\* The ids of the headings rendered so far, in document order.
HeadingIds == [i \in DOMAIN OfKind(out, "heading") |-> OfKind(out, "heading")[i].id]

\* The slug bases of the headings of the input, in document order.
HeadingBases ==
  [i \in DOMAIN OfType(tokens, "heading") |->
     SlugBase(OfType(tokens, "heading")[i].text)]

\* ------------------------------------------------------------ specifications

\* Inputs around headings.
SlugPool ==
  { <<"#"," ","F","o","o">>, <<"#","#"," ","F","o","o","-","1">>, <<"#"," "," ","?","!">>, <<">"," ","[","!","N","O","T","E","]","\n",">"," ","#"," ","f","o","o">>, <<BT,BT,BT,"\n",BT,BT,BT>>, <<"-"," ","x">> }

SlugInit == Idle(Docs(SlugPool, MaxBlocks), {NoGuess}, 1)

SpecSlug == SlugInit /\ [][Next]_vars

\* Inputs of every kind, among them tags and fence languages that name a
\* property of Object.prototype.
MixedPool ==
  { <<"#"," ","F","o","o">>, <<">"," ","[","!","T","I","P","]"," ","T","\n",">"," ","x">>, <<">"," ","[","!","c","o","n","s","t","r","u","c","t","o","r","]">>, <<BT,BT,BT,"c","o","n","s","t","r","u","c","t","o","r","\n",BT,BT,BT>>,
    <<BT,BT,BT,"t","s","\n","x","\n",BT,BT,BT>>, <<"T","e","x","t">> }

Init == Idle(Docs(MixedPool, MaxBlocks), Engines, 1)

Spec == Init /\ [][Next]_vars

\* ------------------------------------------------------------------- claims

\* C1: renderMarkdown is total: for every input it returns a string and
\* never throws; the failure of a sub-component is absorbed inside the call.
C1_RenderIsTotal == status # "thrown"

\* C2: within one renderMarkdown call the ids createSlug allocates are
\* pairwise distinct: no two headings of a document get the same id.
C2_SlugsPairwiseDistinct ==
  \A i, j \in DOMAIN HeadingIds : i # j => HeadingIds[i] # HeadingIds[j]

\* The number of earlier headings of the document with the base of the i-th.
EarlierSameBase(i) ==
  Cardinality({ j \in 1..(i - 1) : HeadingBases[j] = HeadingBases[i] })

\* C3: the headings of one document that share a normalized base b get the
\* ids b, b-1, b-2, ... in document order (the first the bare base, the k-th
\* later one b-k), and the count kept for b is raised on every allocation.
C3_SlugSequence ==
  /\ Len(HeadingIds) <= Len(HeadingBases)
  /\ \A i \in DOMAIN HeadingIds :
       HeadingIds[i] =
         IF EarlierSameBase(i) = 0 THEN HeadingBases[i]
         ELSE HeadingBases[i] \o <<"-">> \o NumberToString(EarlierSameBase(i))
  /\ \A b \in DOMAIN slugCounts :
       slugCounts[b] =
         Cardinality({ i \in DOMAIN HeadingIds : HeadingBases[i] = b })

\* A call returned whose input has three headings of one base.
C3_Witness ==
  /\ status = "returned"
  /\ \E i \in DOMAIN HeadingIds : EarlierSameBase(i) = 2

\* The token a block of the output was rendered from: the blocks of the
\* output and the tokens of the input are in the same order.
TokenOf(i) == TokensIn(tokens)[i]

HtmlEntities == {AmpEntity, LtEntity, GtEntity, QuotEntity, AposEntity}

\* s holds none of & < > " ' raw: every ampersand starts one of the entities
\* escapeHtml writes.
IsEscaped(s) ==
  \A i \in DOMAIN s :
    /\ s[i] \notin {"<", ">", "\"", "'"}
    /\ s[i] = "&" => \E e \in HtmlEntities : StartsWith(SubSeq(s, i, Len(s)), e)

\* Inputs around code blocks, diagrams and callout titles with the
\* characters that HTML reserves.
CodePool ==
  { <<"#"," ","F","o","o">>, <<">"," ","[","!","T","I","P","]"," ","a","<","b"," ","&"," ","\"","c","\"","\n",">"," ","x">>, <<BT,BT,BT,"a","\"","<","b","\n",BT,BT,BT>>,
    <<BT,BT,BT,"m","e","r","m","a","i","d","\n","A","-","-",">","B"," ","&"," ","'","x","'","\n",BT,BT,BT>>, <<BT,BT,BT,"t","x","t","\n","<","i",">"," ","&"," ","\"","q","\"","\n",BT,BT,BT>>, <<"T","e","x","t">> }

CodeInit == Idle(Docs(CodePool, MaxBlocks), Engines, 1)

SpecCode == CodeInit /\ [][Next]_vars

\* C4: every author-controlled string the hooks interpolate (the callout
\* title; the language of a fence in the code-block-<lang> class, in the
\* language-<lang> class and in the data-language attribute; the text of a
\* code line; the source of a diagram) is escaped: none of & < > " ' of these
\* strings is raw in the output.
C4_InterpolatedStringsEscaped ==
  \A i \in DOMAIN NodesIn(out) :
    LET n == NodesIn(out)[i]
    IN  /\ n.kind = "callout" => IsEscaped(n.title)
        /\ n.kind = "diagram" => IsEscaped(n.source)
        /\ n.kind = "code" =>
             /\ IsEscaped(n.blockClass)
             /\ IsEscaped(n.languageClass)
             /\ IsEscaped(n.dataLanguage)
             /\ \A k \in DOMAIN n.lines :
                  n.lines[k].html = Nbsp \/ IsEscaped(n.lines[k].html)

\* Inputs around prose: raw HTML, emoji shortcodes, code spans.
ProsePool ==
  { <<"H","i"," ","<","s","c","r","i","p","t",">","a","l","e","r","t","(","1",")","<","/","s","c","r","i","p","t",">">>, <<BT,"<","s","c","r","i","p","t",">",BT," ",":","s","p","a","r","k","l","e","s",":">>,
    <<"-"," ",":","f","i","r","e",":"," ",BT,":","f","i","r","e",":",BT>>, <<">"," ","[","!","N","O","T","E","]"," ","<","s","c","r","i","p","t",">","\n",">"," ",BT,":","f","i","r","e",":",BT," ",":","f","i","r","e",":">>,
    <<BT,BT,BT,"\n",":","s","p","a","r","k","l","e","s",":"," ","<","s","c","r","i","p","t",">","\n",BT,BT,BT>>, <<"#"," ","H","i"," ",":","f","i","r","e",":">> }

ProseInit == Idle(Docs(ProsePool, MaxBlocks), {NoGuess}, 1)

SpecProse == ProseInit /\ [][Next]_vars

ScriptTag == <<"<","s","c","r","i","p","t",">">>

\* The strings of a block of the output that come from the input.
NodeTexts(n) ==
  IF n.kind \in {"heading", "paragraph", "text", "html"} THEN {n.html}
  ELSE IF n.kind = "callout" THEN {n.title}
  ELSE IF n.kind = "diagram" THEN {n.source}
  ELSE IF n.kind = "code"
    THEN {n.blockClass, n.languageClass, n.dataLanguage}
         \cup {n.lines[k].html : k \in DOMAIN n.lines}
  ELSE {}

\* The baseline parser classified a script tag of the token as raw HTML: the
\* token is an HTML block, or it holds the tag as an inline HTML token.
HoldsRawScript(t) ==
  \/ t.type = "html"
  \/ /\ t.type \in {"heading", "paragraph", "text"}
     /\ \E k \in DOMAIN t.tokens :
          t.tokens[k].type = "html" /\ t.tokens[k].text = ScriptTag

\* C5 as the specification states it: for input with
\* <script>alert(1)</script> as prose text the output holds no unescaped
\* script tag.
C5_NoUnescapedScript ==
  \A i \in DOMAIN NodesIn(out) :
    \A s \in NodeTexts(NodesIn(out)[i]) : ~Includes(s, ScriptTag)

\* C5: for input with <script>alert(1)</script> as prose text, the tag is
\* unescaped in the output exactly where the baseline parser classified it
\* as raw HTML (an inline tag of a paragraph or a heading, an HTML block),
\* and there it is passed through unchanged; in a code span, a fence, a
\* diagram source and a callout title its characters appear only as entities.
C5_ScriptOnlyAsRawHtml ==
  \A i \in DOMAIN NodesIn(out) :
    /\ HoldsRawScript(TokenOf(i)) /\ TokenOf(i).type # "html"
         => Includes(NodesIn(out)[i].html, ScriptTag)
    /\ TokenOf(i).type = "html" => NodesIn(out)[i].html = TokenOf(i).text
    /\ \A s \in NodeTexts(NodesIn(out)[i]) :
         Includes(s, ScriptTag) => HoldsRawScript(TokenOf(i))

\* A call returned a paragraph that holds the script tag of its input
\* unescaped, and one that holds the tag of a code span as entities.
C5_Witness ==
  /\ status = "returned"
  /\ \E i \in DOMAIN NodesIn(out) :
       /\ NodesIn(out)[i].kind = "paragraph"
       /\ HoldsRawScript(TokenOf(i))
       /\ Includes(NodesIn(out)[i].html, ScriptTag)
  /\ \E i \in DOMAIN NodesIn(out) :
       /\ NodesIn(out)[i].kind = "paragraph"
       /\ ~HoldsRawScript(TokenOf(i))
       /\ Includes(NodesIn(out)[i].html, escapeHtml(ScriptTag))

Glyphs == UNION { Range(EMOJI[name]) : name \in DOMAIN EMOJI }

CodeOpen == <<"<","c","o","d","e",">">>

CodeClose == <<"<","/","c","o","d","e",">">>

\* The contents of the code elements of a rendered inline text, in order.
RECURSIVE CodeSpansOf(_)
CodeSpansOf(html) ==
  LET a == IndexOf(html, CodeOpen)
      rest == SubSeq(html, a + Len(CodeOpen), Len(html))
      b == IndexOf(rest, CodeClose)
  IN  IF a = 0 \/ b = 0 THEN <<>>
      ELSE <<SubSeq(rest, 1, b - 1)>>
           \o CodeSpansOf(SubSeq(rest, b + Len(CodeClose), Len(rest)))

\* The escaped texts of the code spans of an inline token list, in order.
CodeSpanTexts(inline) ==
  LET spans == SelectSeq(inline, LAMBDA t : t.type = "codespan")
  IN  [k \in DOMAIN spans |-> escapeHtml(spans[k].text)]

\* C7: an emoji shortcode in prose text is replaced by its glyph; in a code
\* span or a code fence it is left as literal text, wherever the span or the
\* fence sits (paragraph, heading, list item, callout body).
C7_EmojiOnlyInProse ==
  \A i \in DOMAIN NodesIn(out) :
    LET n == NodesIn(out)[i]
        t == TokenOf(i)
    IN  /\ t.type \in {"heading", "paragraph", "text"} =>
             /\ CodeSpansOf(n.html) = CodeSpanTexts(t.tokens)
             /\ \A k \in DOMAIN t.tokens :
                  t.tokens[k].type = "text" =>
                    Includes(n.html, emojify(escapeText(t.tokens[k].text)))
        /\ n.kind = "code" =>
             \A k \in DOMAIN n.lines :
               \A j \in DOMAIN n.lines[k].html : n.lines[k].html[j] \notin Glyphs

\* The blocks rendered so far are those of the first tokens of the input.
Aligned ==
  /\ Len(NodesIn(out)) <= Len(TokensIn(tokens))
  /\ \A i \in DOMAIN NodesIn(out) :
       LET kind == NodesIn(out)[i].kind
           type == TokenOf(i).type
       IN  \/ kind = type
           \/ kind \in {"callout", "blockquote"} /\ type = "blockquote"
           \/ kind = "diagram" /\ type = "code"
           \/ kind = "paragraph" /\ type = "text"

\* Inputs around block quotes: callouts of known and unknown tags, with and
\* without a title or a body, and block quotes that are no callouts.
CalloutPool ==
  { <<">"," ","[","!","T","I","P","]">>, <<">"," ","[","!","B","O","G","U","S","]"," ","t","i","t","l","e">>, <<">"," ","[","!","c","o","n","s","t","r","u","c","t","o","r","]">>,
    <<">"," ","[","!","W","a","r","n","i","n","g","]"," "," ","M","i","n","d"," ","\n",">","\n",">"," ","b","o","d","y">>, <<">"," ","[","T","I","P","]"," ","x">>, <<">"," ","q","u","o","t","e","\n",">"," ","#"," ","F","o","o">>,
    <<"#"," ","F","o","o">>, <<BT,BT,BT,"\n","x","\n",BT,BT,BT>>, <<"T","e","x","t">> }

CalloutInit == Idle(Docs(CalloutPool, MaxBlocks), {NoGuess}, 1)

SpecCallout == CalloutInit /\ [][Next]_vars

\* The header a block quote token carries on its first line, its marker
\* removed.
HeaderOf(token) ==
  HeaderMatch(Trim(StripQuotePrefix(Head(Split(token.raw, "\n")))))

\* The top-level tokens that are block quotes with a callout header.
CalloutPositions ==
  { i \in DOMAIN tokens :
      tokens[i].type = "blockquote" /\ HeaderOf(tokens[i]).matched }

\* The variant key of a tag: the case-folded tag when the table has it, note
\* for every other tag.
KeyOfTag(tag) ==
  IF ToLowerCase(tag) \in {<<"n","o","t","e">>, <<"t","i","p">>, <<"i","m","p","o","r","t","a","n","t">>, <<"w","a","r","n","i","n","g">>, <<"c","a","u","t","i","o","n">>}
    THEN ToLowerCase(tag) ELSE <<"n","o","t","e">>

\* The title of a header: its trimmed custom title when there is one, else
\* the label of its variant.
TitleOfHeader(h) ==
  IF h.rawCustomTitle.t = "string" /\ Trim(h.rawCustomTitle.s) # <<>>
    THEN Trim(h.rawCustomTitle.s)
    ELSE CALLOUT_VARIANTS[KeyOfTag(h.rawType)].label

\* C8: a block quote whose first line is [!TAG], a title after it or not,
\* renders, never with an error, as the callout of the case-folded TAG when
\* that is note, tip, important, warning or caution, and of note for every
\* other TAG: the class is callout-<key>, the icon the variant's, the title
\* the trimmed custom title when there is one, else the variant's label.
C8_CalloutVariant ==
  \A i \in CalloutPositions :
    LET h == HeaderOf(tokens[i])
        v == CALLOUT_VARIANTS[KeyOfTag(h.rawType)]
    IN  /\ pos = i => status # "thrown"
        /\ i <= Len(out) =>
             /\ out[i].kind = "callout"
             /\ out[i].variant = v.key
             /\ out[i].icon = escapeHtml(v.icon)
             /\ out[i].title = escapeHtml(TitleOfHeader(h))

\* The state of the call when the parser reaches the i-th top-level token.
StateBefore(i) ==
  ParserParse(SubSeq(tokens, 1, i - 1), InitialCounters, engine, TRUE).st

\* C9: a block quote whose first line, its marker removed, does not match
\* the header pattern is no callout: its output is what the baseline block
\* quote renderer produces for the token, with no callout markup.
C9_NotACallout ==
  \A i \in DOMAIN out :
    tokens[i].type = "blockquote" /\ ~HeaderOf(tokens[i]).matched =>
      /\ out[i].kind = "blockquote"
      /\ <<out[i]>> = originalBlockquote(tokens[i], StateBefore(i), engine).html

\* A call returned the baseline block quote for a first line that looks like
\* a header and is none, and one for a quote that holds a heading after an
\* earlier heading of the same text.
C9_Witness ==
  /\ status = "returned"
  /\ \E i \in DOMAIN out :
       /\ tokens[i].type = "blockquote"
       /\ ~HeaderOf(tokens[i]).matched
       /\ StartsWith(StripQuotePrefix(tokens[i].raw), <<"[">>)
       /\ out[i].kind = "blockquote"
  /\ \E i \in DOMAIN out :
       /\ out[i].kind = "blockquote"
       /\ \E k \in DOMAIN out[i].body :
            out[i].body[k].kind = "heading" /\ out[i].body[k].id = <<"f","o","o","-","1">>

\* C10: a callout whose body is empty after trimming renders, without an
\* error, with no callout-content wrapper; a callout with a body renders the
\* body in one callout-content wrapper.
C10_CalloutBody ==
  \A i \in CalloutPositions :
    LET c == parseCallout(tokens[i])
    IN  IF Trim(c.contentMarkdown) = <<>>
          THEN /\ pos = i => status # "thrown"
               /\ i <= Len(out) =>
                    /\ out[i].kind = "callout"
                    /\ ~out[i].hasContent
                    /\ out[i].content = <<>>
          ELSE i <= Len(out) =>
                 /\ out[i].kind = "callout"
                 /\ out[i].hasContent
                 /\ out[i].content =
                      ParserParse(c.bodyTokens, StateBefore(i), engine, TRUE).html

\* Inputs of the calls of one run: each holds tokens of several kinds.
CallsPool ==
  { <<"#"," ","F","o","o","\n","\n",BT,BT,BT,"\n","x","\n",BT,BT,BT,"\n","\n","T","e","x","t">>, <<">"," ","#"," ","F","o","o","\n","\n",BT,BT,BT,"m","e","r","m","a","i","d","\n","A","\n",BT,BT,BT>> }

CallsInit == Idle(Docs(CallsPool, MaxCallBlocks), {NoGuess}, MaxCalls)

SpecCalls == CallsInit /\ [][Next]_vars

\* C6: the result of renderMarkdown(x) depends only on x: the slug counts,
\* the code-block counter and the diagram counter of every call start from
\* zero whatever the calls before it; the output of a call is the rendering
\* of its input from that state; and two calls in a row on the same input
\* return the same output.
C6_CallsAreIndependent ==
  /\ status = "rendering" /\ pos = 1 =>
       slugCounts = <<>> /\ codeBlockId = 0 /\ diagramId = 0
  /\ status = "returned" =>
       out = ParserParse(Lexer(markdown),
                         [slugCounts |-> <<>>, codeBlockId |-> 0, diagramId |-> 0],
                         engine, TRUE).html
  /\ status = "returned" /\ prevOut # <<>> /\ prevMarkdown = markdown =>
       prevOut = <<out>>

\* A second call returned on the input of the first, both having allocated a
\* slug, a code block id and a diagram id.
C6_Witness ==
  /\ status = "returned"
  /\ prevOut # <<>>
  /\ prevMarkdown = markdown
  /\ slugCounts # <<>>
  /\ codeBlockId > 0
  /\ diagramId > 0


\* Inputs with headings, fences and diagrams at the top level, in the body
\* of a callout, in a callout nested in a callout and in a plain block quote.
NestPool ==
  { <<"#"," ","F","o","o","\n","\n",BT,BT,BT,"\n","x","\n",BT,BT,BT,"\n","\n",BT,BT,BT,"m","e","r","m","a","i","d","\n","A","\n",BT,BT,BT>>,
    <<">"," ","[","!","N","O","T","E","]","\n",">"," ","#"," ","F","o","o","\n",">"," ",BT,BT,BT,"\n",">"," ","x","\n",">"," ",BT,BT,BT,"\n",">"," ",BT,BT,BT,"m","e","r","m","a","i","d","\n",">"," ","A","\n",">"," ",BT,BT,BT,"\n",">"," ",">"," ","[","!","T","I","P","]","\n",">"," ",">"," ","z">>,
    <<">"," ","[","!","T","I","P","]","\n",">"," ",">"," ","[","!","N","O","T","E","]","\n",">"," ",">"," ","#"," ","F","o","o","\n",">"," ",">"," ",BT,BT,BT,"\n",">"," ",">"," ","y","\n",">"," ",">"," ",BT,BT,BT>>,
    <<">"," ",BT,BT,BT,"p","l","a","n","t","u","m","l","\n",">"," ","B","\n",">"," ",BT,BT,BT>>, <<"T","e","x","t">> }

NestInit == Idle(Docs(NestPool, MaxNestBlocks), {NoGuess}, 1)

SpecNest == NestInit /\ [][Next]_vars

\* The blocks of the output that are direct children of a callout body.
InCalloutBody(kind) ==
  { n \in UNION { Range(c.content) : c \in Range(OfKind(out, "callout")) } :
      n.kind = kind }

\* C11: the body of a callout is rendered as a nested document by the same
\* hooks on the state of the call: a heading, a fence, a diagram and a
\* callout of a body are rendered as at the top level, and over the whole
\* document, bodies included, the k-th code block is code-block-k, the k-th
\* diagram diagram-<kind>-k and the headings get the slugs of their bases in
\* document order, the counters standing at the numbers allocated so far.
C11_CalloutBodySharesState ==
  /\ \A i \in DOMAIN NodesIn(out) :
       /\ TokenOf(i).type = "heading" => NodesIn(out)[i].kind = "heading"
       /\ TokenOf(i).type = "code" => NodesIn(out)[i].kind \in {"code", "diagram"}
       /\ TokenOf(i).type = "blockquote" =>
            NodesIn(out)[i].kind =
              IF HeaderOf(TokenOf(i)).matched THEN "callout" ELSE "blockquote"
  /\ \A k \in DOMAIN OfKind(out, "code") :
       OfKind(out, "code")[k].id = <<"c","o","d","e","-","b","l","o","c","k","-">> \o NumberToString(k)
  /\ \A k \in DOMAIN OfKind(out, "diagram") :
       OfKind(out, "diagram")[k].targetId =
         <<"d","i","a","g","r","a","m","-">> \o OfKind(out, "diagram")[k].diagramKind \o <<"-">>
           \o NumberToString(k)
  /\ \A i \in DOMAIN HeadingIds :
       HeadingIds[i] = SlugOf(HeadingBases[i], EarlierSameBase(i))
  /\ codeBlockId = Len(OfKind(out, "code"))
  /\ diagramId = Len(OfKind(out, "diagram"))

\* A call returned a callout whose body holds the second heading Foo, the
\* second code block and the second diagram of the document, and a callout
\* nested in a callout.
C11_Witness ==
  /\ status = "returned"
  /\ \E h \in InCalloutBody("heading") : h.id = <<"f","o","o","-","1">>
  /\ \E c \in InCalloutBody("code") : c.id = <<"c","o","d","e","-","b","l","o","c","k","-","2">>
  /\ \E d \in InCalloutBody("diagram") : d.targetId = <<"d","i","a","g","r","a","m","-","m","e","r","m","a","i","d","-","2">>
  /\ InCalloutBody("callout") # {}

\* Inputs around diffs: a diff fence with lines of every class, the same
\* first characters under another language, under no language and under
\* Diff in capitals, and a diff fence in a block quote.
DiffPool ==
  { <<"#"," ","F","o","o","\n","\n",">"," ",BT,BT,BT,"d","i","f","f","\n",">"," ","+","n","\n",">"," ",BT,BT,BT,"\n","\n","T","e","x","t">>,
    <<BT,BT,BT,"d","i","f","f","\n","+","a","\n","-","b","\n","@","@"," ","-","1"," ","+","1"," ","@","@","\n"," ","c","\n","\n"," ","+","d","\n",BT,BT,BT>>,
    <<BT,BT,BT,"t","s","\n","+","x","\n","-","y","\n","@","z","\n",BT,BT,BT>>, <<BT,BT,BT,"D","i","f","f","\n","+","a","\n",BT,BT,BT>>, <<BT,BT,BT,"\n","+","a","\n","-","b","\n",BT,BT,BT>>,
    <<BT,BT,BT,"p","a","t","c","h","\n","-","q","\n",BT,BT,BT>> }

DiffInit == Idle(Docs(DiffPool, MaxBlocks), Engines, 1)

SpecDiff == DiffInit /\ [][Next]_vars

DiffClasses == {"code-line-addition", "code-line-deletion", "code-line-hunk"}

\* The class the first character of a raw line stands for.
ClassOfFirstChar(rawLine) ==
  IF rawLine = <<>> THEN {}
  ELSE IF rawLine[1] = "+" THEN {"code-line-addition"}
  ELSE IF rawLine[1] = "-" THEN {"code-line-deletion"}
  ELSE IF rawLine[1] = "@" THEN {"code-line-hunk"}
  ELSE {}

\* The raw lines of the text of a fence.
RawLines(text) == DropTrailingEmpty(Split(text, "\n"))

\* The language a code block was styled with is diff.
StyledAsDiff(n) == n.hasLanguage /\ n.languageClass = <<"d","i","f","f">>

\* C12: in a code block whose effective language is diff every line is
\* classified by its raw first character only (+ addition, - deletion,
\* @ hunk, any other line no class) and the block is a code-block-diff; in a
\* block of another effective language, or of none, no line has one of
\* these classes and the block is no code-block-diff.
C12_DiffLines ==
  \A i \in DOMAIN NodesIn(out) :
    LET n == NodesIn(out)[i]
    IN  n.kind = "code" =>
          /\ n.diff <=> StyledAsDiff(n)
          /\ \A k \in DOMAIN n.lines :
               Range(n.lines[k].classes) \cap DiffClasses =
                 IF StyledAsDiff(n) /\ k <= Len(RawLines(TokenOf(i).text))
                   THEN ClassOfFirstChar(RawLines(TokenOf(i).text)[k])
                   ELSE {}

\* A call returned a diff block with an addition, a deletion, a hunk, an
\* unclassified line that holds a + after a space, and a block of another
\* language whose first line starts with + and has no class.
C12_Witness ==
  /\ status = "returned"
  /\ \E i \in DOMAIN NodesIn(out) :
       /\ NodesIn(out)[i].kind = "code"
       /\ NodesIn(out)[i].diff
       /\ \A c \in DiffClasses :
            \E k \in DOMAIN NodesIn(out)[i].lines :
              c \in Range(NodesIn(out)[i].lines[k].classes)
       /\ \E k \in DOMAIN NodesIn(out)[i].lines :
            /\ RawLines(TokenOf(i).text)[k] = <<" ","+","d">>
            /\ Range(NodesIn(out)[i].lines[k].classes) \cap DiffClasses = {}
  /\ \E i \in DOMAIN NodesIn(out) :
       /\ NodesIn(out)[i].kind = "code"
       /\ ~NodesIn(out)[i].diff
       /\ Head(TokenOf(i).text) = "+"
       /\ Range(NodesIn(out)[i].lines[1].classes) \cap DiffClasses = {}

\* Inputs around the lines of a fence: no line, blank lines only, blank
\* lines inside and at the end, and lines that end in a carriage return and
\* a line feed.
LinesPool ==
  { <<"#"," ","F","o","o","\n","\n",">"," ",BT,BT,BT,"\n",">"," ","\n",">"," ",BT,BT,BT,"\n","\n","T","e","x","t">>, <<BT,BT,BT,"\n",BT,BT,BT>>, <<BT,BT,BT,"\n","\n","\n",BT,BT,BT>>,
    <<BT,BT,BT,"\n","a","\n","\n","b","\n","\n",BT,BT,BT>>, <<BT,BT,BT,"t","x","t","\r","\n","a","\r","\n","\r","\n",BT,BT,BT>>, <<BT,BT,BT,"t","s","\n","x","\n",BT,BT,BT>> }

LinesInit == Idle(Docs(LinesPool, MaxBlocks), Engines, 1)

SpecLines == LinesInit /\ [][Next]_vars

\* The placeholder span of a block without lines.
EmptyLine == [classes |-> <<"code-line", "code-line-empty">>, html |-> Nbsp]

\* C13: a code block has one code-line span for every raw line of its
\* source, counted after \r\n is turned into \n and the trailing empty lines
\* are removed, and exactly one span, code-line-empty around &nbsp;, when
\* no line is left; no span is empty: the span of an empty line holds &nbsp;.
C13_OneSpanPerLine ==
  \A i \in DOMAIN NodesIn(out) :
    LET n == NodesIn(out)[i]
    IN  n.kind = "code" =>
          /\ Len(n.lines) =
               IF RawLines(normalizeNewlines(TokenOf(i).text)) = <<>> THEN 1
               ELSE Len(RawLines(normalizeNewlines(TokenOf(i).text)))
          /\ RawLines(normalizeNewlines(TokenOf(i).text)) = <<>> =>
               n.lines = <<EmptyLine>>
          /\ \A k \in DOMAIN n.lines :
               /\ n.lines[k].html # <<>>
               /\ "code-line-empty" \in Range(n.lines[k].classes) =>
                    n.lines[k].html = Nbsp

\* A call returned a block of no line, rendered as the one placeholder, and
\* a block of three lines whose second is empty and holds &nbsp;.
C13_Witness ==
  /\ status = "returned"
  /\ \E i \in DOMAIN NodesIn(out) :
       /\ NodesIn(out)[i].kind = "code"
       /\ TokenOf(i).text = <<"\n">>
       /\ NodesIn(out)[i].lines = <<EmptyLine>>
  /\ \E i \in DOMAIN NodesIn(out) :
       /\ NodesIn(out)[i].kind = "code"
       /\ Len(NodesIn(out)[i].lines) = 3
       /\ NodesIn(out)[i].lines[2].html = Nbsp
       /\ NodesIn(out)[i].lines[3].html = <<"b">>

\* The ids of the code blocks of an output, in document order.
CodeIdsOf(o) == [k \in DOMAIN OfKind(o, "code") |-> OfKind(o, "code")[k].id]

\* The target ids of the diagrams of an output, in document order.
DiagramIdsOf(o) ==
  [k \in DOMAIN OfKind(o, "diagram") |-> OfKind(o, "diagram")[k].targetId]

\* The ids of the positions after the first n are each an id of numbers(kind)
\* and none is among the first n.
FreshIds(ids, n, numbered) ==
  \A k \in (n + 1)..Len(ids) :
    /\ ids[k] \in numbered
    /\ \A j \in 1..(k - 1) : ids[j] # ids[k]

\* C14: at every step of a call the code-block counter and the diagram
\* counter do not decrease; a code block the step renders gets the id
\* code-block-<n> and a diagram diagram-<kind>-<n>, n a value the counter
\* takes in the step, above every value it had before; the ids of the code
\* blocks of the call are pairwise distinct, and so are the target ids of
\* its diagrams.
C14_CountersNeverReused ==
  [][status = "rendering" =>
       /\ codeBlockId' >= codeBlockId
       /\ diagramId' >= diagramId
       /\ Len(CodeIdsOf(out')) >= Len(CodeIdsOf(out))
       /\ Len(DiagramIdsOf(out')) >= Len(DiagramIdsOf(out))
       /\ FreshIds(CodeIdsOf(out'), Len(CodeIdsOf(out)),
                   { <<"c","o","d","e","-","b","l","o","c","k","-">> \o NumberToString(n) :
                       n \in (codeBlockId + 1)..codeBlockId' })
       /\ FreshIds(DiagramIdsOf(out'), Len(DiagramIdsOf(out)),
                   { createDiagramTargetId(kind, n) :
                       kind \in DIAGRAM_LANGUAGES,
                       n \in (diagramId + 1)..diagramId' })
       /\ \A j, k \in DOMAIN CodeIdsOf(out') :
            j # k => CodeIdsOf(out')[j] # CodeIdsOf(out')[k]
       /\ \A j, k \in DOMAIN DiagramIdsOf(out') :
            j # k => DiagramIdsOf(out')[j] # DiagramIdsOf(out')[k]]_vars

\* A call returned two code blocks of the same lines and two diagrams of the
\* same source, under different ids.
C14_Witness ==
  /\ status = "returned"
  /\ \E j, k \in DOMAIN OfKind(out, "code") :
       /\ j < k
       /\ OfKind(out, "code")[j].lines = OfKind(out, "code")[k].lines
       /\ OfKind(out, "code")[j].id # OfKind(out, "code")[k].id
  /\ \E j, k \in DOMAIN OfKind(out, "diagram") :
       /\ j < k
       /\ OfKind(out, "diagram")[j].source = OfKind(out, "diagram")[k].source
       /\ OfKind(out, "diagram")[j].targetId # OfKind(out, "diagram")[k].targetId

\* Inputs around diagrams: mermaid and plantuml fences, the alias puml,
\* capitals, an empty source, a source with reserved characters, a diagram
\* in a block quote and a fence whose language only starts like mermaid.
DiagramPool ==
  { <<"#"," ","F","o","o","\n","\n",">"," ",BT,BT,BT,"P","U","M","L","\n",">"," ","B","\n",">"," ",BT,BT,BT,"\n","\n","T","e","x","t">>,
    <<BT,BT,BT,"m","e","r","m","a","i","d","\n","g","r","a","p","h"," ","T","D",";"," ","A","-","-",">","B",";","\n",BT,BT,BT>>, <<BT,BT,BT,"p","l","a","n","t","u","m","l","\n","A"," ","-",">"," ","B","\n",BT,BT,BT>>,
    <<BT,BT,BT,"p","u","m","l","\n","<","b",">"," ","&"," ","'","c","'","\n",BT,BT,BT>>, <<BT,BT,BT,"M","e","r","m","a","i","d","\n",BT,BT,BT>>, <<BT,BT,BT,"m","e","r","m","a","i","d","s","\n","x","\n",BT,BT,BT>> }

DiagramInit == Idle(Docs(DiagramPool, MaxBlocks), Engines, 1)

SpecDiagram == DiagramInit /\ [][Next]_vars

\* The diagram kind the info string of a fence names, none for any other.
KindOfInfo(info) ==
  IF ToLowerCase(info) = <<"m","e","r","m","a","i","d">> THEN <<"m","e","r","m","a","i","d">>
  ELSE IF ToLowerCase(info) \in {<<"p","l","a","n","t","u","m","l">>, <<"p","u","m","l">>} THEN <<"p","l","a","n","t","u","m","l">>
  ELSE <<>>

\* C15: a fence whose info string normalizes to mermaid renders as a figure
\* of kind mermaid in the state pending, one whose info string normalizes to
\* plantuml (puml included, in any letter case) as a figure of kind plantuml
\* in the state unsupported; the figure holds the source of the fence
\* escaped, the empty source too; such a fence raises no error and is
\* never a code block, and no other fence is a figure.
C15_DiagramFences ==
  /\ \A i \in DOMAIN NodesIn(out) :
       TokenOf(i).type = "code" =>
         IF KindOfInfo(TokenOf(i).lang.s) = <<>>
           THEN NodesIn(out)[i].kind = "code"
           ELSE /\ NodesIn(out)[i].kind = "diagram"
                /\ NodesIn(out)[i].diagramKind = KindOfInfo(TokenOf(i).lang.s)
                /\ NodesIn(out)[i].state =
                     IF KindOfInfo(TokenOf(i).lang.s) = <<"m","e","r","m","a","i","d">>
                       THEN "pending" ELSE "unsupported"
                /\ NodesIn(out)[i].source = escapeHtml(TokenOf(i).text)
  /\ status = "thrown" =>
       ~(tokens[pos].type = "code" /\ KindOfInfo(tokens[pos].lang.s) # <<>>)

\* A call returned a pending figure of an empty source, written Mermaid, and
\* an unsupported figure whose source holds entities, written puml.
C15_Witness ==
  /\ status = "returned"
  /\ \E i \in DOMAIN NodesIn(out) :
       /\ TokenOf(i).type = "code"
       /\ TokenOf(i).lang.s = <<"M","e","r","m","a","i","d">>
       /\ NodesIn(out)[i].state = "pending"
       /\ NodesIn(out)[i].source = <<>>
  /\ \E i \in DOMAIN NodesIn(out) :
       /\ TokenOf(i).type = "code"
       /\ TokenOf(i).lang.s = <<"p","u","m","l">>
       /\ NodesIn(out)[i].state = "unsupported"
       /\ NodesIn(out)[i].source = <<"&","l","t",";","b","&","g","t",";"," ","&","a","m","p",";"," ","&","#","3","9",";","c","&","#","3","9",";">>

\* The fences renderer.code has been called on with an info string: those
\* before the position of the parser, and the one an error was raised at.
NormalizedFences ==
  { i \in DOMAIN tokens :
      /\ tokens[i].type = "code"
      /\ Trim(tokens[i].lang.s) # <<>>
      /\ i < pos \/ (i = pos /\ status = "thrown") }

\* C16: normalizeLanguage returns a string for every string: the entry of
\* the alias table for the lowercased input when the table has one, else
\* the lowercased input; the result does not depend on the letter case.
C16_NormalizeLanguage ==
  \A i \in NormalizedFences :
    /\ normalizeLanguage(tokens[i].lang.s).t = "string"
    /\ normalizeLanguage(tokens[i].lang.s).s =
         IF ToLowerCase(tokens[i].lang.s) \in DOMAIN LANGUAGE_ALIASES
           THEN LANGUAGE_ALIASES[ToLowerCase(tokens[i].lang.s)]
           ELSE ToLowerCase(tokens[i].lang.s)
    /\ normalizeLanguage(ToLowerCase(tokens[i].lang.s)) =
         normalizeLanguage(tokens[i].lang.s)

\* Inputs around fences the engine is called on: a language it knows, one
\* it does not know, no language; and fences it is not called on: the plain
\* language, and a language that names a property of Object.prototype.
ThrowPool ==
  { <<"#"," ","F","o","o","\n","\n",">"," ",BT,BT,BT,"j","s","\n",">"," ","a","<","b","\n",">"," ",BT,BT,BT,"\n","\n","T","e","x","t">>, <<BT,BT,BT,"t","s","\n","x"," ","&"," ","y","\n",BT,BT,BT>>,
    <<BT,BT,BT,"\n","<","i",">","\n",BT,BT,BT>>, <<BT,BT,BT,"Z","Z","Z","\n","\"","q","\"","\n","\n","'","r","'","\n",BT,BT,BT>>, <<BT,BT,BT,"t","x","t","\n","x","\n",BT,BT,BT>>,
    <<BT,BT,BT,"c","o","n","s","t","r","u","c","t","o","r","\n","x","\n",BT,BT,BT>> }

ThrowInit == Idle(Docs(ThrowPool, MaxBlocks), Engines, 1)

SpecThrow == ThrowInit /\ [][Next]_vars

\* The language hinted by an info string, normalized; none for no hint.
HintedLanguage(info) ==
  IF Trim(info) = <<>> THEN <<>>
  ELSE IF ToLowerCase(info) \in DOMAIN LANGUAGE_ALIASES
    THEN LANGUAGE_ALIASES[ToLowerCase(info)]
  ELSE ToLowerCase(info)

\* The engine is called for the fence: its language is none or a string
\* other than the plain language and the diagram languages.
EngineCalledOn(token) ==
  /\ token.type = "code"
  /\ ToLowerCase(token.lang.s) \notin ObjectPrototypeKeys
  /\ HintedLanguage(token.lang.s) \notin {PLAIN_LANGUAGE} \cup DIAGRAM_LANGUAGES

\* C17: when the engine throws for a code block, the error does not leave
\* the call; the block is rendered, every line the escaped raw line (&nbsp;
\* for an empty one), and it is styled with the normalized language of the
\* info string, with none when the fence has no info string.
C17_EngineErrorsAreCaught ==
  engine.throws =>
    /\ status = "thrown" => ~EngineCalledOn(tokens[pos])
    /\ \A i \in DOMAIN NodesIn(out) :
         EngineCalledOn(TokenOf(i)) =>
           /\ NodesIn(out)[i].kind = "code"
           /\ NodesIn(out)[i].hasLanguage <=> Trim(TokenOf(i).lang.s) # <<>>
           /\ NodesIn(out)[i].languageClass = HintedLanguage(TokenOf(i).lang.s)
           /\ NodesIn(out)[i].blockClass =
                IF Trim(TokenOf(i).lang.s) = <<>> THEN <<"p","l","a","i","n">>
                ELSE HintedLanguage(TokenOf(i).lang.s)
           /\ \A k \in DOMAIN RawLines(TokenOf(i).text) :
                /\ k \in DOMAIN NodesIn(out)[i].lines
                /\ NodesIn(out)[i].lines[k].html =
                     IF RawLines(TokenOf(i).text)[k] = <<>> THEN Nbsp
                     ELSE escapeHtml(RawLines(TokenOf(i).text)[k])

\* Under an engine that throws a call returned a block of a language the
\* engine knows, a block of a language it does not know and a block of no
\* language, each with its escaped lines.
C17_Witness ==
  /\ engine.throws
  /\ status = "returned"
  /\ \E i \in DOMAIN NodesIn(out) :
       /\ NodesIn(out)[i].kind = "code"
       /\ NodesIn(out)[i].languageClass = <<"t","y","p","e","s","c","r","i","p","t">>
       /\ NodesIn(out)[i].lines[1].html = <<"x"," ","&","a","m","p",";"," ","y">>
  /\ \E i \in DOMAIN NodesIn(out) :
       /\ NodesIn(out)[i].kind = "code"
       /\ NodesIn(out)[i].languageClass = <<"z","z","z">>
  /\ \E i \in DOMAIN NodesIn(out) :
       /\ NodesIn(out)[i].kind = "code"
       /\ ~NodesIn(out)[i].hasLanguage
       /\ NodesIn(out)[i].lines[1].html = <<"&","l","t",";","i","&","g","t",";">>

\* Inputs around heading texts: hyphens between spaces, punctuation only,
\* hyphens and punctuation at the ends, an underscore, capitals, a heading
\* in a block quote.
BasePool ==
  { <<"#"," ","A"," ","-"," ","b">>, <<"#"," ","-"," ","?","!">>, <<"#"," ","-","F","o","o","_","9","-">>, <<"#","#"," ","C","#"," ","&"," ","(","x",")"," "," ","y">>,
    <<">"," ","#"," ","!","-","a","-","!","\n","\n","T","e","x","t">>, <<BT,BT,BT,"\n","x","\n",BT,BT,BT>> }

BaseInit == Idle(Docs(BasePool, MaxBlocks), {NoGuess}, 1)

SpecBase == BaseInit /\ [][Next]_vars

\* The characters a slug base keeps as they are.
IsSlugWord(c) == c \in Range(LowerLetters) \cup Range(DigitChars) \cup {"_"}

\* The kept characters of a lowercased text, a hyphen between two of them
\* where the text has whitespace or a hyphen between them.
RECURSIVE Hyphenated(_, _, _)
Hyphenated(s, gap, started) ==
  IF s = <<>> THEN <<>>
  ELSE IF IsSlugWord(Head(s))
    THEN (IF gap /\ started THEN <<"-">> ELSE <<>>) \o <<Head(s)>>
         \o Hyphenated(Tail(s), FALSE, TRUE)
  ELSE Hyphenated(Tail(s), gap \/ IsSpace(Head(s)) \/ Head(s) = "-", started)

\* The base the specification gives a heading text.
BaseOfText(text) ==
  IF Hyphenated(ToLowerCase(text), FALSE, FALSE) = <<>> THEN <<"s","e","c","t","i","o","n">>
  ELSE Hyphenated(ToLowerCase(text), FALSE, FALSE)

\* Non-empty, of a-z, 0-9, _ and - only, no two hyphens in a row, no hyphen
\* at either end.
IsCleanBase(b) ==
  /\ b # <<>>
  /\ \A k \in DOMAIN b : IsSlugWord(b[k]) \/ b[k] = "-"
  /\ \A k \in 1..(Len(b) - 1) : ~(b[k] = "-" /\ b[k + 1] = "-")
  /\ b[1] # "-"
  /\ b[Len(b)] # "-"

\* The texts of the headings rendered so far, in document order.
HeadingTexts ==
  [i \in DOMAIN HeadingIds |-> OfType(tokens, "heading")[i].text]

\* C18: the base createSlug counts a heading under is non-empty, holds only
\* characters of [a-z0-9_-], no two hyphens in a row and no hyphen at either
\* end; it is section when the text reduces to nothing, and else what
\* lowercasing, trimming, turning whitespace runs into hyphens, deleting
\* other characters, collapsing hyphen runs and trimming hyphens, in this
\* order, leave of the text; the id of the heading is this base, or this
\* base and a number.
C18_SlugBase ==
  /\ \A b \in DOMAIN slugCounts :
       /\ IsCleanBase(b)
       /\ \E i \in DOMAIN HeadingTexts : b = BaseOfText(HeadingTexts[i])
  /\ \A i \in DOMAIN HeadingTexts :
       /\ BaseOfText(HeadingTexts[i]) \in DOMAIN slugCounts
       /\ \/ HeadingIds[i] = BaseOfText(HeadingTexts[i])
          \/ StartsWith(HeadingIds[i], BaseOfText(HeadingTexts[i]) \o <<"-">>)

\* A call returned headings counted under section, a-b and c-x-y.
C18_Witness ==
  /\ status = "returned"
  /\ {<<"s","e","c","t","i","o","n">>, <<"a","-","b">>, <<"c","-","x","-","y">>} \subseteq DOMAIN slugCounts

\* -------------------------------------------------------------- the previewer
\* main watches the directory of one file and calls renderAndBroadcast once
\* at the start and, debounced, after every change event; the preview server
\* keeps the last payload and writes every broadcast to the event stream of
\* the page, whose message handler shows it.

\* renderMarkdown as one call: the walk of the parser over all the tokens.
renderMarkdown(source, eng) ==
  ParserParse(Lexer(source), InitialCounters, eng, TRUE)

\* The name of the watched file, of another file of its directory, and the
\* null the watcher passes when the platform gives no name.
FileName == <<"a","&","b",".","m","d">>

OtherName == <<"x",".","t","m","p">>

NoName == <<>>

\* The guard of the watcher callback: an event that names another file is
\* dropped.
IsWatched(changed) == ~(changed # <<>> /\ changed # FileName)

\* What the watched file can hold: a document that renders, a document
\* renderMarkdown throws on, or nothing that can be read.
WatchPool == { <<"#"," ","F","o","o">>, <<">"," ","[","!","c","o","n","s","t","r","u","c","t","o","r","]">> }

WatchedFiles ==
  { [readable |-> TRUE, content |-> d] : d \in WatchPool } \cup {Unreadable}

\* The message of the error readFile rejects with, and of the TypeError
\* that leaves renderMarkdown.
ReadErrorMessage == <<"E","N","O","E","N","T",":"," ","n","o"," ","s","u","c","h"," ","f","i","l","e"," ","o","r"," ","d","i","r","e","c","t","o","r","y",","," ","o","p","e","n"," ","'","a","&","b",".","m","d","'">>

RenderErrorMessage == <<"C","a","n","n","o","t"," ","r","e","a","d"," ","p","r","o","p","e","r","t","i","e","s"," ","o","f"," ","u","n","d","e","f","i","n","e","d"," ","(","r","e","a","d","i","n","g"," ","'","r","e","p","l","a","c","e","'",")">>

\* A plausible slip: an event is dropped while the timer variable is set.
triggerRenderOnce(timer) == IF timer # "undefined" THEN timer ELSE "pending"

\* triggerRender: the pending timeout is cleared and a new one is set.
triggerRender(timer) == "pending"

\* buildPayload (the file name, the title and the time are left out);
\* isError is FALSE for an isError that is undefined.
buildPayload(html, isError) ==
  [html |-> html, isError |-> isError, defined |-> TRUE]

\* The payload of the catch block.
FailurePayload(message) ==
  buildPayload(<<[kind |-> "unable", pre |-> escapeHtml(message)]>>, TRUE)

\* A plausible slip: the try block ends before the call of renderMarkdown.
AttemptReadOnly(result, rendered) ==
  IF ~result.readable
    THEN [left |-> FALSE, payload |-> FailurePayload(ReadErrorMessage)]
  ELSE IF rendered.threw THEN [left |-> TRUE, payload |-> NoPayload]
  ELSE [left |-> FALSE, payload |-> buildPayload(rendered.html, FALSE)]

\* The try block of renderAndBroadcast and its catch, from the result of
\* readFile and of renderMarkdown: the payload to broadcast; left says that
\* an error left the function.
Attempt(result, rendered) ==
  IF ~result.readable
    THEN [left |-> FALSE, payload |-> FailurePayload(ReadErrorMessage)]
  ELSE IF rendered.threw
    THEN [left |-> FALSE, payload |-> FailurePayload(RenderErrorMessage)]
  ELSE [left |-> FALSE, payload |-> buildPayload(rendered.html, FALSE)]

\* The data of an event as the page parses it: JSON.stringify leaves out an
\* isError that is undefined, and the page reads it as falsy.
Wire(payload) == [html |-> payload.html, isError |-> payload.isError]

\* The payload a client gets that connects before the first broadcast.
Placeholder ==
  [html |-> <<[kind |-> "placeholder"]>>, isError |-> FALSE, defined |-> TRUE]

\* The message handler of the page.
Shown(shown, payload) ==
  [appIsError |-> payload.isError,
   statusHidden |-> ~payload.isError,
   statusIsError |-> payload.isError,
   html |-> payload.html]

\* main has created the server and the watcher and awaits the first
\* renderAndBroadcast, whose readFile is under way.
WatchInit ==
  /\ pending = <<>>
  /\ engine = NoGuess
  /\ markdown = <<>>
  /\ tokens = <<>>
  /\ pos = 1
  /\ slugCounts = <<>>
  /\ codeBlockId = 0
  /\ diagramId = 0
  /\ out = <<>>
  /\ status = "idle"
  /\ prevMarkdown = <<>>
  /\ prevOut = <<>>
  /\ file \in WatchedFiles
  /\ epoch = 0
  /\ watching = TRUE
  /\ debounceTimer = "undefined"
  /\ reading = {[started |-> 0, settled |-> FALSE, result |-> Unreadable]}
  /\ lastPayload = NoPayload
  /\ broadcasts = <<>>
  /\ connected = FALSE
  /\ inbox = <<>>
  /\ page = ShellPage
  /\ NoBurst
  /\ NoStreams
  /\ NoAssets
  /\ NoDiagrams

\* The watcher callback runs for an event of the directory: one that names
\* another file is dropped, any other calls triggerRender.  An event of the
\* watched file comes with what the file holds from then on.
Watch ==
  /\ watching
  /\ epoch < MaxChanges
  /\ \E changed \in {FileName, OtherName, NoName}, f \in WatchedFiles :
       IF IsWatched(changed)
         THEN /\ file' = f
              /\ epoch' = epoch + 1
              /\ debounceTimer' = triggerRender(debounceTimer)
         ELSE UNCHANGED <<file, epoch, debounceTimer>>
  /\ UNCHANGED <<renderVars, burstVars, streamVars, assetVars, diagramVars,
                 watching, reading, lastPayload, broadcasts,
                 connected, inbox, page>>

\* The timeout expires: renderAndBroadcast is called and starts readFile.
\* The variable keeps the handle of the expired timeout.
Timeout ==
  /\ debounceTimer = "pending"
  /\ debounceTimer' = "expired"
  /\ reading' = reading \cup
       {[started |-> epoch, settled |-> FALSE, result |-> Unreadable]}
  /\ UNCHANGED <<renderVars, burstVars, streamVars, assetVars, diagramVars,
                 file, epoch, watching, lastPayload, broadcasts,
                 connected, inbox, page>>

\* A readFile settles with what the file holds, or with an error.
ReadFile ==
  /\ \E r \in reading :
       /\ ~r.settled
       /\ reading' = (reading \ {r}) \cup
            {[r EXCEPT !.settled = TRUE, !.result = file]}
  /\ UNCHANGED <<renderVars, burstVars, streamVars, assetVars, diagramVars,
                 file, epoch, watching, debounceTimer,
                 lastPayload, broadcasts, connected, inbox, page>>

\* The process ends: shutdown closes the watcher, clears the timeout, ends
\* the event streams and exits.
Exit ==
  /\ watching' = FALSE
  /\ debounceTimer' = "undefined"
  /\ reading' = {}
  /\ connected' = FALSE
  /\ UNCHANGED <<renderVars, burstVars, streamVars, assetVars, diagramVars,
                 file, epoch, lastPayload, broadcasts, inbox, page>>

\* preview.broadcast of the payload of the call r: the server keeps it and
\* writes it to the stream of every client.
Broadcast(r, payload) ==
  /\ lastPayload' = payload
  /\ inbox' = IF connected THEN Append(inbox, Wire(payload)) ELSE inbox
  /\ broadcasts' = Append(broadcasts,
       [started |-> r.started, isError |-> payload.isError,
        delivered |-> connected])
  /\ reading' = reading \ {r}
  /\ UNCHANGED <<renderVars, burstVars, streamVars, assetVars, diagramVars,
                 file, epoch, watching, debounceTimer, connected,
                 page>>

\* The end of the call r: its payload is broadcast; an error that left it
\* would be an unhandled rejection, which ends the process.
Finish(r, attempt) ==
  IF attempt.left THEN Exit ELSE Broadcast(r, attempt.payload)

\* renderAndBroadcast goes on after its readFile: renderMarkdown and
\* preview.broadcast, or the catch block and its broadcast.
RenderAndBroadcast ==
  \E r \in reading :
    /\ r.settled
    /\ Finish(r, Attempt(r.result, renderMarkdown(r.result.content, NoGuess)))

\* The page opens its event stream: the open handler hides the status line,
\* and the server sends the last payload, or the placeholder.
Connect ==
  /\ watching
  /\ ~connected
  /\ connected' = TRUE
  /\ inbox' = Append(inbox, Wire(IF lastPayload.defined THEN lastPayload
                                 ELSE Placeholder))
  /\ page' = [page EXCEPT !.statusHidden = TRUE, !.statusIsError = FALSE]
  /\ UNCHANGED <<renderVars, burstVars, streamVars, assetVars, diagramVars,
                 file, epoch, watching, debounceTimer, reading,
                 lastPayload, broadcasts>>

\* The message handler of the page runs on the next event of the stream.
Message ==
  /\ inbox # <<>>
  /\ page' = Shown(page, Head(inbox))
  /\ inbox' = Tail(inbox)
  /\ UNCHANGED <<renderVars, burstVars, streamVars, assetVars, diagramVars,
                 file, epoch, watching, debounceTimer, reading,
                 lastPayload, broadcasts, connected>>

\* SIGINT or SIGTERM.
Shutdown ==
  /\ watching
  /\ Exit

WatchNext ==
  Watch \/ Timeout \/ ReadFile \/ RenderAndBroadcast \/ Connect \/ Message
    \/ Shutdown

SpecWatch == WatchInit /\ [][WatchNext]_vars

\* The previewer while no signal ends it.
LiveNext ==
  Watch \/ Timeout \/ ReadFile \/ RenderAndBroadcast \/ Connect \/ Message

\* What a step of RenderAndBroadcast does to the calls under way: one whose
\* read has settled ends.  RenderAndBroadcast is enabled exactly when this
\* is, and these are its steps.
Resumes == \E r \in reading : r.settled /\ reading' = reading \ {r}

\* The event loop runs an expired timeout, settles a read and resumes the
\* call that awaits it; the change events and the page are under no such
\* obligation.
SpecLive ==
  /\ WatchInit
  /\ [][LiveNext]_vars
  /\ WF_vars(Timeout)
  /\ WF_vars(ReadFile)
  /\ WF_reading(Resumes)

\* C19: live reload: once the change events of the watched file have
\* stopped, a broadcast occurs whose payload comes from a readFile that
\* started after the last of them, and from then on there is such a
\* broadcast.
C19_LiveReload ==
  <>[](\E k \in DOMAIN broadcasts : broadcasts[k].started = epoch)

\* After two change events a broadcast of a read started after the second
\* has followed one of a read started before it.
C19_Witness ==
  /\ epoch = 2
  /\ reading = {}
  /\ \E j, k \in DOMAIN broadcasts :
       j < k /\ broadcasts[j].started < 2 /\ broadcasts[k].started = 2

\* What readFile can settle with such that the read or the rendering fails.
FailingFiles ==
  UNION { IF ~f.readable \/ renderMarkdown(f.content, NoGuess).threw
            THEN {f} ELSE {} : f \in WatchedFiles }

Fails(result) == result \in FailingFiles

\* The step is the end of a call of renderAndBroadcast, of which failed says
\* that its read or its rendering failed, and nothing left the call: the watcher and the timeout are as they were, one payload
\* was broadcast and written to the stream of the page, its isError is set
\* exactly when the read or the rendering failed, and the html of a failure
\* is the notice with the escaped message.
EndsWithBroadcast(failed) ==
  /\ watching' = watching
  /\ debounceTimer' = debounceTimer
  /\ Len(broadcasts') = Len(broadcasts) + 1
  /\ lastPayload'.defined
  /\ lastPayload'.isError = failed
  /\ failed =>
       /\ Len(lastPayload'.html) = 1
       /\ lastPayload'.html[1].kind = "unable"
       /\ lastPayload'.html[1].pre # <<>>
       /\ IsEscaped(lastPayload'.html[1].pre)
  /\ connected =>
       /\ connected'
       /\ inbox' = Append(inbox,
            [html |-> lastPayload'.html, isError |-> failed])

\* The page handles a message: the error display is on exactly when the
\* payload has isError.
ShowsPayload ==
  /\ page'.appIsError = Head(inbox).isError
  /\ page'.statusIsError = Head(inbox).isError
  /\ page'.statusHidden = ~Head(inbox).isError
  /\ page'.html = Head(inbox).html

\* C20: when the read or the rendering fails inside renderAndBroadcast, no
\* exception leaves it: a payload with isError and the escaped message is
\* broadcast, and the watcher stays active; a run that succeeds broadcasts a
\* payload without isError, and the page that receives a payload shows the
\* error display exactly when the payload has isError.
C20_FailureIsBroadcast ==
  [][/\ \A r \in reading :
          (r.settled /\ r \notin reading')
            => EndsWithBroadcast(Fails(r.result)) \/ ~RenderAndBroadcast
     /\ (inbox # <<>> /\ inbox' = Tail(inbox)) => ShowsPayload]_vars

\* The page got the payload of a failure and then the payload of a later
\* run that succeeded, and shows no error.
C20_Witness ==
  /\ watching
  /\ inbox = <<>>
  /\ ~page.appIsError
  /\ page.statusHidden
  /\ \E j, k \in DOMAIN broadcasts :
       /\ j < k
       /\ broadcasts[j].started < broadcasts[k].started
       /\ broadcasts[j].isError /\ broadcasts[j].delivered
       /\ ~broadcasts[k].isError /\ broadcasts[k].delivered

\* The text parseCallout hands to the lexer for a callout.
HandedToLexer(token) ==
  IF Trim(parseCallout(token).contentMarkdown) # <<>>
    THEN parseCallout(token).contentMarkdown ELSE <<>>

\* The text neither starts nor ends with a line that is empty or holds
\* only white space.
NoBlankEnds(text) ==
  \/ text = <<>>
  \/ /\ Trim(Head(Split(text, "\n"))) # <<>>
     /\ Trim(Split(text, "\n")[Len(Split(text, "\n"))]) # <<>>

\* C22: in parseCallout every leading and every trailing blank line of the
\* body is dropped before the body is lexed again: the text handed to the
\* lexer neither starts nor ends with a blank line.
C22_BodyHasNoBlankEnds ==
  \A i \in CalloutPositions :
    i <= Len(out) => NoBlankEnds(HandedToLexer(tokens[i]))

\* The hint of a fence as the renderer passes it to highlightCode.
HintOf(token) ==
  IF HintedLanguage(token.lang.s) = <<>> THEN JsUndefined
  ELSE JsString(HintedLanguage(token.lang.s))

\* The effective language when automatic detection ran: the normalized
\* guess, or the hint when the engine gave no guess.
DetectedOr(hint, eng) ==
  IF ~eng.throws /\ Truthy(eng.guessed) THEN HintedLanguage(eng.guessed.s)
  ELSE hint

\* The mode of highlightCode for a code block and its effective language:
\* h is the result of highlightCode for the text and the hint of the fence,
\* node the block rendered from it.
ModeFollowsHint(hint, text, h, node, eng) ==
  IF hint \notin {<<>>, PLAIN_LANGUAGE} /\ hint \in HLJS_LANGUAGES
    THEN /\ h.call = "highlight"
         /\ h.language = JsString(hint)
         /\ node.languageClass = hint
  ELSE IF hint = PLAIN_LANGUAGE
    THEN /\ h.call = "none"
         /\ h.value = escapeHtml(normalizeNewlines(text))
         /\ node.languageClass = PLAIN_LANGUAGE
  ELSE /\ h.call = "highlightAuto"
       /\ node.languageClass = DetectedOr(hint, eng)
       /\ node.hasLanguage <=> DetectedOr(hint, eng) # <<>>

\* C23: highlightCode selects its mode from the normalized hint: a hint
\* that is not the plain language and that the engine knows is highlighted
\* as that language, which stays the effective language; the plain language
\* is never passed to the engine and the code is only escaped; in every
\* other case automatic detection runs and the effective language is the
\* normalized guess, or the hint when there is no guess.
C23_HighlightMode ==
  \A i \in DOMAIN NodesIn(out) :
    (TokenOf(i).type = "code" /\ NodesIn(out)[i].kind = "code") =>
      ModeFollowsHint(HintedLanguage(TokenOf(i).lang.s), TokenOf(i).text,
                      highlightCode(TokenOf(i).text, HintOf(TokenOf(i)), engine),
                      NodesIn(out)[i], engine)

\* Under an engine that guesses, a call returned a block of a language the
\* engine knows, styled as that language, and a block of a language it does
\* not know, styled as the guess; or a block of the plain language.
C23_Witness ==
  /\ status = "returned"
  /\ Truthy(engine.guessed)
  /\ \E i, j \in DOMAIN NodesIn(out) :
       /\ TokenOf(i).type = "code"
       /\ TokenOf(i).lang.s = <<"t","s">>
       /\ NodesIn(out)[i].languageClass = <<"t","y","p","e","s","c","r","i","p","t">>
       /\ TokenOf(j).type = "code"
       /\ \/ /\ TokenOf(j).lang.s = <<"Z","Z","Z">>
             /\ NodesIn(out)[j].languageClass = HintedLanguage(engine.guessed.s)
          \/ /\ TokenOf(j).lang.s = <<"t","x","t">>
             /\ NodesIn(out)[j].languageClass = PLAIN_LANGUAGE

\* C25: if two runs of renderAndBroadcast overlap, the payload broadcast
\* last is the one whose read of the file started last: the last payload
\* of the server, and the page, never end on a read older than one already
\* broadcast.
C25_LastBroadcastIsLatestRead ==
  \A j \in DOMAIN broadcasts :
    broadcasts[j].started <= broadcasts[Len(broadcasts)].started

\* ------------------------------------------------------ the debounce in time
\* The watcher callback and triggerRender with the time of the event loop: a
\* timeout runs when it is due, before any event that arrives later.

DEBOUNCE_MS == 75

\* The time between a watch event and the step before it, in milliseconds.
Gaps == {1, 10, 74}

\* A plausible slip: the pending timeout is never cleared.
clearTimeoutNever(pendingTimeouts, id) == pendingTimeouts

\* clearTimeout: the event loop drops the timeout of the handle, if it
\* still holds it.
clearTimeout(pendingTimeouts, id) == { t \in pendingTimeouts : t.id # id }

\* if (debounceTimer) clearTimeout(debounceTimer)
ClearedIfSet(pendingTimeouts, id) ==
  IF id # 0 THEN clearTimeout(pendingTimeouts, id) ELSE pendingTimeouts

BurstInit ==
  NoRender /\ NoPreview /\ NoBurst /\ NoStreams /\ NoAssets /\ NoDiagrams

\* A watch event arrives, before any timeout is due: the callback drops it
\* when it names another file, and calls triggerRender otherwise, which
\* clears the timeout of debounceTimer and sets a new one.  A timeout
\* records the accepted event that set it.
WatchEvent ==
  /\ arrivals < MaxEvents
  /\ \E d \in Gaps, changed \in {FileName, OtherName, NoName} :
       /\ \A t \in timeouts : clock + d < t.due
       /\ clock' = clock + d
       /\ IF IsWatched(changed)
            THEN /\ accepted' = Append(accepted, clock + d)
                 /\ timeouts' = ClearedIfSet(timeouts, handle) \cup
                      {[id |-> arrivals + 1, due |-> clock + d + DEBOUNCE_MS,
                        by |-> Len(accepted) + 1]}
                 /\ handle' = arrivals + 1
            ELSE UNCHANGED <<accepted, timeouts, handle>>
  /\ arrivals' = arrivals + 1
  /\ UNCHANGED <<renderVars, previewVars, streamVars, assetVars, diagramVars,
                 runs>>

\* Time passes until the next timeout is due and its callback runs: it
\* calls renderAndBroadcast.  debounceTimer keeps the handle.
Expire ==
  /\ \E t \in timeouts :
       /\ \A u \in timeouts : t.due <= u.due
       /\ clock' = t.due
       /\ timeouts' = timeouts \ {t}
       /\ runs' = Append(runs, [at |-> t.due, by |-> t.by])
  /\ UNCHANGED <<renderVars, previewVars, streamVars, assetVars, diagramVars,
                 handle, arrivals, accepted>>

BurstNext == WatchEvent \/ Expire

\* The event loop runs the callback of a timeout that is due.
SpecBurst == BurstInit /\ [][BurstNext]_vars /\ WF_vars(Expire)

\* The accepted event i is the last of its burst: no accepted event came
\* less than DEBOUNCE_MS after it.
LastOfBurst(i) ==
  i = Len(accepted) \/ accepted[i + 1] - accepted[i] >= DEBOUNCE_MS

\* At most one timeout is pending, and every call of renderAndBroadcast was
\* started by the timeout of the last event of a burst, DEBOUNCE_MS after
\* it, no two by the same event.
OneRunAfterBurst ==
  /\ Cardinality(timeouts) <= 1
  /\ \A k \in DOMAIN runs :
       /\ runs[k].by \in DOMAIN accepted
       /\ LastOfBurst(runs[k].by)
       /\ runs[k].at = accepted[runs[k].by] + DEBOUNCE_MS
  /\ \A j, k \in DOMAIN runs : runs[j].by = runs[k].by => j = k

\* Every burst has started its call.
EveryBurstRan ==
  \A i \in DOMAIN accepted : LastOfBurst(i) => \E k \in DOMAIN runs : runs[k].by = i

\* C26: at most one debounce timeout is pending at any time: every accepted
\* watch event clears the pending one and sets a new one of 75 ms, so a
\* burst of events, each less than 75 ms after the one before, starts
\* exactly one call of renderAndBroadcast, after the last event of the burst.
C26_OneRunPerBurst == []OneRunAfterBurst /\ <>[]EveryBurstRan

\* A burst of three accepted events has started one call, 75 ms after the
\* third.
C26_Witness ==
  /\ Len(accepted) >= 3
  /\ accepted[2] - accepted[1] < DEBOUNCE_MS
  /\ accepted[3] - accepted[2] < DEBOUNCE_MS
  /\ runs = <<[at |-> accepted[3] + DEBOUNCE_MS, by |-> 3]>>

\* ------------------------------------------- the event streams of the server
\* createPreviewServer: the handler of /events, broadcast and close.  A
\* stream is the response of one request; last is the message written to it
\* last, late says that it was written to after its request had closed or it
\* had been ended.  A server that was closed takes no request.

PlaceholderMessage == [kind |-> "placeholder", n |-> 0]

PayloadMessage(n) == [kind |-> "payload", n |-> n]

\* A plausible slip: a new client always gets the placeholder.
FirstMessageIsPlaceholder(last) == PlaceholderMessage

\* What the handler of /events sends to a new client: lastPayload, or the
\* placeholder when nothing was broadcast.
FirstMessage(last) ==
  IF last # 0 THEN PayloadMessage(last) ELSE PlaceholderMessage

\* A plausible slip: the close handler of the request does nothing.
DeleteNothing(set, stream) == set

\* clients.delete(res)
Delete(set, stream) == set \ {stream}

\* stream.write and client.write
Write(stream, message) ==
  [stream EXCEPT !.last = message,
                 !.late = stream.requestClosed \/ stream.ended]

StreamInit ==
  NoRender /\ NoPreview /\ NoBurst /\ NoStreams /\ NoAssets /\ NoDiagrams

\* A request to /events: the response joins clients and gets its first
\* message.
Events ==
  /\ listening
  /\ Len(streams) < MaxStreams
  /\ clients' = clients \cup {Len(streams) + 1}
  /\ streams' = Append(streams,
       Write([last |-> [kind |-> "none", n |-> 0], late |-> FALSE,
              requestClosed |-> FALSE, ended |-> FALSE],
             FirstMessage(latest)))
  /\ UNCHANGED <<renderVars, previewVars, burstVars, assetVars, diagramVars,
                 latest, listening>>

\* The request of a stream closes: its close handler runs.
RequestClose ==
  /\ \E c \in DOMAIN streams :
       /\ ~streams[c].requestClosed
       /\ streams' = [streams EXCEPT ![c].requestClosed = TRUE]
       /\ clients' = Delete(clients, c)
  /\ UNCHANGED <<renderVars, previewVars, burstVars, assetVars, diagramVars,
                 latest, listening>>

\* broadcast(payload): lastPayload is set and every client is written to.
BroadcastAll ==
  /\ latest < MaxBroadcasts
  /\ latest' = latest + 1
  /\ streams' = [c \in DOMAIN streams |->
                   IF c \in clients
                     THEN Write(streams[c], PayloadMessage(latest + 1))
                     ELSE streams[c]]
  /\ UNCHANGED <<renderVars, previewVars, burstVars, assetVars, diagramVars,
                 clients, listening>>

\* close(): every client is ended, clients is cleared and the server stops
\* listening.
Close ==
  /\ listening
  /\ streams' = [c \in DOMAIN streams |->
                   IF c \in clients THEN [streams[c] EXCEPT !.ended = TRUE]
                   ELSE streams[c]]
  /\ clients' = {}
  /\ listening' = FALSE
  /\ UNCHANGED <<renderVars, previewVars, burstVars, assetVars, diagramVars,
                 latest>>

StreamNext == Events \/ RequestClose \/ BroadcastAll \/ Close

SpecStreams == StreamInit /\ [][StreamNext]_vars

\* C24: after any sequence of connections, disconnections and broadcasts
\* the message written last to every client that is connected is the most
\* recent broadcast payload, or the placeholder when nothing was broadcast;
\* a client that connects after a broadcast gets that payload at once.
C24_ClientsHoldLatest ==
  \A c \in clients :
    streams[c].last =
      IF latest = 0 THEN PlaceholderMessage ELSE PayloadMessage(latest)

\* Two clients are connected that hold the second payload: one connected
\* before the first broadcast, one after it.
C24_Witness ==
  /\ latest = 2
  /\ Cardinality(clients) >= 2
  /\ \A c \in clients : streams[c].last = PayloadMessage(2)
  /\ \E c \in DOMAIN streams : c \notin clients

AssetPaths == { <<"/","m","e","r","m","a","i","d",".","j","s">>, <<"/","c","h","u","n","k",".","j","s">>, <<"/",".",".","j","s">> }

\* requestPath.startsWith("/") ? requestPath.slice(1) : requestPath
NormalizedRequest(requestPath) ==
  IF StartsWith(requestPath, <<"/">>) THEN Tail(requestPath) ELSE requestPath

\* The path is not the module and its name relative to the directory of
\* the distribution starts with two dots.
IsInvalidAsset(requestPath) ==
  /\ NormalizedRequest(requestPath) # <<"m","e","r","m","a","i","d",".","j","s">>
  /\ StartsWith(NormalizedRequest(requestPath), <<".", ".">>)

\* The requests made so far.
Requested == Len(responses) + Cardinality(loads)

\* res.writeHead(status) and res.end for the request seq: after is the
\* number of requests made by then.
Respond(seq, requestPath, code) ==
  Append(responses, [seq |-> seq, path |-> requestPath, status |-> code,
                     after |-> Requested])

AssetInit ==
  NoRender /\ NoPreview /\ NoBurst /\ NoStreams /\ NoAssets /\ NoDiagrams

\* A request for a script: loadMermaidAsset runs up to its await.  A cached
\* error is thrown again, a cached source is returned, an invalid path is
\* cached as an error, and for any other path the read of the file starts.
RequestAsset ==
  /\ Requested < MaxRequests
  /\ \E requestPath \in AssetPaths :
       IF requestPath \in mermaidAssetErrors
         THEN /\ responses' = Respond(Requested + 1, requestPath, 404)
              /\ UNCHANGED <<mermaidAssetCache, mermaidAssetErrors,
                             mermaidDistDir, loads>>
       ELSE IF requestPath \in mermaidAssetCache
         THEN /\ responses' = Respond(Requested + 1, requestPath, 200)
              /\ UNCHANGED <<mermaidAssetCache, mermaidAssetErrors,
                             mermaidDistDir, loads>>
       ELSE IF IsInvalidAsset(requestPath)
         THEN /\ mermaidAssetErrors' = mermaidAssetErrors \cup {requestPath}
              /\ mermaidDistDir' = TRUE
              /\ responses' = Respond(Requested + 1, requestPath, 404)
              /\ UNCHANGED <<mermaidAssetCache, loads>>
       ELSE /\ loads' = loads \cup {[seq |-> Requested + 1, path |-> requestPath]}
            /\ mermaidDistDir' =
                 (mermaidDistDir \/ NormalizedRequest(requestPath) # <<"m","e","r","m","a","i","d",".","j","s">>)
            /\ UNCHANGED <<mermaidAssetCache, mermaidAssetErrors, responses>>
  /\ UNCHANGED <<renderVars, previewVars, burstVars, streamVars, diagramVars>>

\* The read of a request settles with the source: it is cached and served.
ReadSource ==
  /\ \E l \in loads :
       /\ loads' = loads \ {l}
       /\ mermaidAssetCache' = mermaidAssetCache \cup {l.path}
       /\ responses' = Respond(l.seq, l.path, 200)
  /\ UNCHANGED <<renderVars, previewVars, burstVars, streamVars, diagramVars,
                 mermaidAssetErrors, mermaidDistDir>>

\* The read of a request settles with an error: the catch block caches it
\* and the request is answered with 404.
ReadError ==
  /\ \E l \in loads :
       /\ loads' = loads \ {l}
       /\ mermaidAssetErrors' = mermaidAssetErrors \cup {l.path}
       /\ responses' = Respond(l.seq, l.path, 404)
  /\ UNCHANGED <<renderVars, previewVars, burstVars, streamVars, diagramVars,
                 mermaidAssetCache, mermaidDistDir>>

AssetNext == RequestAsset \/ ReadSource \/ ReadError

SpecAssets == AssetInit /\ [][AssetNext]_vars

\* C27: for any interleaving of requests for one path, the path is never in
\* both mermaidAssetCache and mermaidAssetErrors, so that a path that was
\* served once is served to every later request.
C27_CachesAreExclusive ==
  /\ mermaidAssetCache \cap mermaidAssetErrors = {}
  /\ \A j, k \in DOMAIN responses :
       ( /\ responses[j].path = responses[k].path
         /\ responses[j].status = 200
         /\ responses[k].seq > responses[j].after ) => responses[k].status = 200

\* ------------------------------------------ the Mermaid diagrams of the page
\* renderMermaidDiagrams of the page script.  A diagram is a figure of the
\* document: its definition, its data-diagram-state, the text of its
\* message, the container its target holds (the number of the pass that put
\* it there, 0 for none) and whether the target holds an svg element.  A
\* pass is one call of renderMermaidDiagrams: pc is the await it stands at,
\* index the diagram it is at, events what it met in its last step.  Passes
\* overlap: renderDiagrams does not await them.

\* A definition of white space, one mermaid.parse rejects, one it accepts.
Definitions == { <<" "," ">>, <<"g","r","p","h">>, <<"g","r","a","p","h"," ","T","D",";"," ","A","-","-",">","B",";">> }

ParseRejects(definition) == definition = <<"g","r","p","h">>

DefaultMessage == DIAGRAM_METADATA[<<"m","e","r","m","a","i","d">>].message

\* The diagrams of a document as renderDiagram writes them.
DiagramsOf(definitions) ==
  [i \in DOMAIN definitions |->
     [definition |-> definitions[i],
      state |-> DIAGRAM_METADATA[<<"m","e","r","m","a","i","d">>].initialState,
      message |-> DefaultMessage, container |-> 0, svg |-> FALSE]]

DefinitionLists ==
  UNION { [1..n -> Definitions] : n \in 1..MaxDiagrams }

\* The style sheet of the page shows the source of a diagram in these
\* states.
SourceShown(state) == state \in {"error", "unsupported"}

\* The failure of a diagram: its state is error and its message is text.
Failed(diagram, text) ==
  [diagram EXCEPT !.state = "error", !.message = text]

\* A plausible slip: the pass does not look for the svg element.
RunResultUnchecked(diagram, outcome, svgFound) ==
  IF outcome = "throws"
    THEN Failed(diagram, "Unable to render Mermaid diagram.")
  ELSE [diagram EXCEPT !.state = "rendered", !.message = DefaultMessage]

\* The try block around mermaid.run and its catch: outcome says whether
\* the call threw, svgFound whether the target holds an svg afterwards.
RunResult(diagram, outcome, svgFound) ==
  IF outcome = "throws" \/ ~svgFound
    THEN Failed(diagram, "Unable to render Mermaid diagram.")
  ELSE [diagram EXCEPT !.state = "rendered", !.message = DefaultMessage]

\* The loop of the pass p from the diagram i up to its next await, or to
\* its end: a rendered diagram is skipped unless the pass is forced, an
\* empty definition fails, and any other diagram gets a new container in
\* its target and the state rendering, and the pass awaits mermaid.parse.
\* (The state pending of a forced pass is overwritten before the pass
\* awaits.)
RECURSIVE Advance(_, _, _, _, _)
Advance(ds, p, force, i, events) ==
  IF i > Len(ds)
    THEN [diagrams |-> ds, pc |-> "done", index |-> i, events |-> events]
  ELSE IF ~force /\ ds[i].state = "rendered"
    THEN Advance(ds, p, force, i + 1,
                 Append(events, [d |-> i, what |-> "skipped"]))
  ELSE IF Trim(ds[i].definition) = <<>>
    THEN Advance([ds EXCEPT ![i] = Failed(@, "Mermaid diagram is empty.")],
                 p, force, i + 1, Append(events, [d |-> i, what |-> "empty"]))
  ELSE [diagrams |->
          [ds EXCEPT ![i] = [@ EXCEPT !.state = "rendering",
                                      !.message = DefaultMessage,
                                      !.container = p, !.svg = FALSE]],
        pc |-> "parse", index |-> i, events |-> events]

\* The pass p goes on as r says.
GoesOn(p, force, r) ==
  /\ diagrams' = r.diagrams
  /\ passes' = [passes EXCEPT ![p] = [force |-> force, pc |-> r.pc,
                                      index |-> r.index, events |-> r.events]]

MermaidInit ==
  /\ NoRender /\ NoPreview /\ NoBurst /\ NoStreams /\ NoAssets
  /\ mermaidModule = FALSE
  /\ mermaidLoadError = FALSE
  /\ diagrams \in { DiagramsOf(l) : l \in DefinitionLists }
  /\ passes = <<>>

\* renderDiagrams(app, options): a pass starts and awaits loadMermaid.
StartPass ==
  /\ Len(passes) < MaxPasses
  /\ \E force \in BOOLEAN :
       passes' = Append(passes, [force |-> force, pc |-> "load", index |-> 0,
                                 events |-> <<>>])
  /\ UNCHANGED <<renderVars, previewVars, burstVars, streamVars, assetVars,
                 mermaidModule, mermaidLoadError, diagrams>>

\* loadMermaid settles for a pass with the module: it is kept, and the loop
\* of the pass starts.
Loaded ==
  /\ ~mermaidLoadError
  /\ \E p \in DOMAIN passes :
       /\ passes[p].pc = "load"
       /\ mermaidModule' = TRUE
       /\ GoesOn(p, passes[p].force,
                 Advance(diagrams, p, passes[p].force, 1, <<>>))
  /\ UNCHANGED <<renderVars, previewVars, burstVars, streamVars, assetVars,
                 mermaidLoadError>>

\* loadMermaid settles for a pass with an error: it is kept, every diagram
\* fails and the pass returns.
LoadFailed ==
  /\ ~mermaidModule
  /\ \E p \in DOMAIN passes :
       /\ passes[p].pc = "load"
       /\ mermaidLoadError' = TRUE
       /\ diagrams' = [d \in DOMAIN diagrams |->
                         Failed(diagrams[d], "Mermaid library failed to load.")]
       /\ passes' = [passes EXCEPT ![p].pc = "done",
                                   ![p].events = <<[d |-> 0, what |-> "load"]>>]
  /\ UNCHANGED <<renderVars, previewVars, burstVars, streamVars, assetVars,
                 mermaidModule>>

\* mermaid.parse settles for a pass: a definition it rejects fails and the
\* loop goes on, any other is handed to mermaid.run.
Parsed ==
  /\ \E p \in DOMAIN passes :
       /\ passes[p].pc = "parse"
       /\ IF ParseRejects(diagrams[passes[p].index].definition)
            THEN GoesOn(p, passes[p].force,
                   Advance([diagrams EXCEPT ![passes[p].index] =
                              Failed(@, "Mermaid diagram could not be parsed.")],
                           p, passes[p].force, passes[p].index + 1,
                           <<[d |-> passes[p].index, what |-> "parse"]>>))
            ELSE /\ passes' = [passes EXCEPT ![p].pc = "run",
                                             ![p].events = <<>>]
                 /\ UNCHANGED diagrams
  /\ UNCHANGED <<renderVars, previewVars, burstVars, streamVars, assetVars,
                 mermaidModule, mermaidLoadError>>

\* The target of the diagram d after mermaid.run of the pass p settled with
\* outcome: the svg is drawn into the container of the pass, which the
\* target holds unless a later pass has replaced it.
Drawn(d, p, outcome) ==
  [diagrams EXCEPT ![d].svg = @ \/ (outcome = "svg" /\ diagrams[d].container = p)]

\* The diagram d after the try block of the pass p.
AfterRun(ds, d, outcome) ==
  [ds EXCEPT ![d] = RunResult(@, outcome, ds[d].svg)]

\* What the try block met: the call threw, or the target holds an svg
\* afterwards, or it holds none.
Met(ds, d, outcome) ==
  IF outcome = "throws" THEN "throws"
  ELSE IF ds[d].svg THEN "svg" ELSE "nothing"

\* mermaid.run settles for a pass: it threw, drew nothing, or drew an svg
\* into the container of the pass; then the loop goes on.
Ran ==
  /\ \E p \in DOMAIN passes, outcome \in {"throws", "nothing", "svg"} :
       /\ passes[p].pc = "run"
       /\ GoesOn(p, passes[p].force,
            Advance(AfterRun(Drawn(passes[p].index, p, outcome),
                             passes[p].index, outcome),
                    p, passes[p].force, passes[p].index + 1,
                    <<[d |-> passes[p].index,
                       what |-> Met(Drawn(passes[p].index, p, outcome),
                                    passes[p].index, outcome)]>>))
  /\ UNCHANGED <<renderVars, previewVars, burstVars, streamVars, assetVars,
                 mermaidModule, mermaidLoadError>>

MermaidNext == StartPass \/ Loaded \/ LoadFailed \/ Parsed \/ Ran

SpecMermaid == MermaidInit /\ [][MermaidNext]_vars

\* The message of each failure of the render pass.
FailureMessage ==
  [load |-> "Mermaid library failed to load.",
   empty |-> "Mermaid diagram is empty.",
   parse |-> "Mermaid diagram could not be parsed.",
   throws |-> "Unable to render Mermaid diagram.",
   nothing |-> "Unable to render Mermaid diagram."]

Failures == {"load", "empty", "parse", "throws", "nothing"}

\* What the pass p has met in this step.
MetNow(p) ==
  IF p \in DOMAIN passes /\ passes'[p] # passes[p]
    THEN { passes'[p].events[k] : k \in DOMAIN passes'[p].events }
  ELSE {}

\* The diagrams an event is about: all of them for the load, else its own.
About(event) == IF event.d = 0 THEN DOMAIN diagrams' ELSE {event.d}

\* Every failure a pass meets ends with the diagram in state error, with
\* the message of the failure, and the source is shown in that state.
FailuresEndInError ==
  \A p \in DOMAIN passes' : \A event \in MetNow(p) :
    event.what \in Failures =>
      \A d \in About(event) :
        /\ diagrams'[d].state = "error"
        /\ diagrams'[d].message = FailureMessage[event.what]
        /\ diagrams'[d].message # DefaultMessage
        /\ SourceShown(diagrams'[d].state)

\* A rendered diagram has an svg element in its target.
RenderedHasSvg ==
  \A d \in DOMAIN diagrams' : diagrams'[d].state = "rendered" => diagrams'[d].svg

\* The pass p completes in this step.
Completes(p) ==
  /\ p \in DOMAIN passes
  /\ passes[p].pc # "done"
  /\ passes'[p].pc = "done"

\* The passes that stand at the diagram d, awaiting its parse or its run.
Rendering(d) ==
  { p \in DOMAIN passes' : passes'[p].pc \in {"parse", "run"} /\ passes'[p].index = d }

\* C21: every failure of Mermaid rendering (load failure, empty definition,
\* parse error, run error, no svg) ends with the diagram in state error with
\* an explicit message, a state in which the source is shown; a rendered
\* diagram has an svg in its target; and when a render pass completes, a
\* diagram in state rendering is one another pass is still rendering.
C21_FailuresAreErrors ==
  [][/\ FailuresEndInError
     /\ RenderedHasSvg
     /\ \A p \in DOMAIN passes' : Completes(p) =>
          \A d \in DOMAIN diagrams' :
            diagrams'[d].state = "rendering" => Rendering(d) \ {p} # {}]_vars

\* Two passes overlapped: one has completed after it found no svg in the
\* target of a diagram, which is in state error with the message of that
\* failure, while the other still renders a diagram.
C21_Witness ==
  /\ Len(passes) = 2
  /\ \E p \in DOMAIN passes :
       /\ passes[p].pc = "done"
       /\ \E i \in DOMAIN passes[p].events :
            /\ passes[p].events[i].what = "nothing"
            /\ diagrams[passes[p].events[i].d].message = FailureMessage.nothing
  /\ \E p \in DOMAIN passes : passes[p].pc = "run"
  /\ \E d \in DOMAIN diagrams : diagrams[d].state = "rendering"
  /\ \E d \in DOMAIN diagrams : diagrams[d].state = "error"

\* C21 as the specification states it: when a render pass completes, no
\* diagram is left in state rendering.
C21_NoneLeftRendering ==
  [][/\ FailuresEndInError
     /\ RenderedHasSvg
     /\ \A p \in DOMAIN passes' : Completes(p) =>
          \A d \in DOMAIN diagrams' : diagrams'[d].state # "rendering"]_vars
====
